---------------------------- MODULE Spec2Model ----------------------------
(***************************************************************************)
(* A model of the WordPress-to-MDX migration scripts (scripts/wp_transform *)
(* .py and scripts/wp_export.py).                                          *)
(*                                                                         *)
(* A text is a tuple of one-character strings, so that the rewrite rules   *)
(* of the scripts, which are regular expressions over characters, are      *)
(* modelled by what they do to the characters.                             *)
(***************************************************************************)
EXTENDS Integers, Sequences, FiniteSets

VARIABLES
    pc,                  \* where the program stands
    body,                \* the text handed to a rewriting stage called on its own
    base_url,            \* site.json's baseUrl, as the caller read it
    out,                 \* what the call returned
    out2,                \* what the call on that result returned
    exc,                 \* the exception that left the call or the run, "none" if none
    unknown_shortcodes,  \* wp_transform.py:24, the module-level set
    raw,                 \* content/_raw: the artifacts of the export, by file name
    todo,                \* the records a loop has still to go through
    files,               \* content/: the documents written, by path
    manifest,            \* content/media-manifest.json
    report,              \* content/transform-report.json: its unknownShortcodes
    pages,               \* build_page_hierarchy's argument
    walk,                \* get_path's locals: page, current, path
    hierarchy            \* build_page_hierarchy's local of that name

vars == <<pc, body, base_url, out, out2, exc, unknown_shortcodes, raw, todo,
          files, manifest, report, pages, walk, hierarchy>>

-----------------------------------------------------------------------------
(* Characters.                                                             *)

Lower == {"a", "b", "c", "d", "e", "f", "g", "h", "i", "j", "k", "l", "m",
          "n", "o", "p", "q", "r", "s", "t", "u", "v", "w", "x", "y", "z"}
Upper == {"A", "B", "C", "D", "E", "F", "G", "H", "I", "J", "K", "L", "M",
          "N", "O", "P", "Q", "R", "S", "T", "U", "V", "W", "X", "Y", "Z"}
Digit == {"0", "1", "2", "3", "4", "5", "6", "7", "8", "9"}
\* \w, \s of Python's re on ASCII text
WordCh == Lower \cup Upper \cup Digit \cup {"_"}
Space == {" ", "\t", "\n", "\r", "\f"}

Max2(a, b) == IF a > b THEN a ELSE b
Min2(a, b) == IF a < b THEN a ELSE b

\* F of the value of e: the value is worked out once, however often F refers
\* to it
Bind(e, F(_)) == CHOOSE r \in {F(v) : v \in {e}} : TRUE

MinOf(S) == Bind(S, LAMBDA T : CHOOSE x \in T : \A y \in T : x <= y)
MaxOf(S) == Bind(S, LAMBDA T : CHOOSE x \in T : \A y \in T : x >= y)

-----------------------------------------------------------------------------
(* Regular expressions, as Python's re matches them: a pattern is a tuple  *)
(* of nodes, matched left to right by backtracking, a greedy repetition    *)
(* trying the longer match first and a lazy one the shorter.               *)

\* a literal character sequence
Lit(cs) == [t |-> "lit", cs |-> cs]
\* [abc] and [^abc]
In(cs) == [t |-> "set", neg |-> FALSE, cs |-> cs]
Not(cs) == [t |-> "set", neg |-> TRUE, cs |-> cs]
\* . under re.DOTALL
AnyCh == Not({})
\* p{lo,hi}; hi = -1 is no upper limit
Rep(p, lo, hi) == [t |-> "rep", p |-> p, lo |-> lo, hi |-> hi, lazy |-> FALSE]
Star(p) == Rep(p, 0, -1)
Plus(p) == Rep(p, 1, -1)
Opt(p) == Rep(p, 0, 1)
\* p*?
LazyStar(p) == [t |-> "rep", p |-> p, lo |-> 0, hi |-> -1, lazy |-> TRUE]
\* (p), the k-th group
Grp(k, p) == [t |-> "grp", k |-> k, p |-> p]
\* p1|p2|...
Alt(ps) == [t |-> "alt", ps |-> ps]

\* no group has taken part in the match; the patterns of the scripts have at most four
NoGroups == [k \in 1..4 |-> <<0, 0>>]
NoMatch == [ok |-> FALSE, e |-> 0, g |-> NoGroups]

\* whether character c is in the character class n
InClass(n, c) == (c \in n.cs) # n.neg

RECURSIVE MatchK(_, _, _, _)
RECURSIVE MatchNode(_, _, _, _)
RECURSIVE MatchAlt(_, _, _, _, _)
\* the match of the nodes k at position i of s, the groups so far being g:
\* e is the position after the match
MatchK(k, s, i, g) ==
    Bind(<<k, s, i, g>>, LAMBDA a : MatchNode(a[1], a[2], a[3], a[4]))

MatchNode(k, s, i, g) ==
    IF Len(k) = 0 THEN [ok |-> TRUE, e |-> i, g |-> g]
    ELSE LET n == Head(k)
             rest == Tail(k)
         IN CASE n.t = "lit" ->
                  IF i + Len(n.cs) - 1 <= Len(s)
                       /\ SubSeq(s, i, i + Len(n.cs) - 1) = n.cs
                  THEN MatchK(rest, s, i + Len(n.cs), g)
                  ELSE NoMatch
              [] n.t = "set" ->
                  IF i <= Len(s) /\ InClass(n, s[i])
                  THEN MatchK(rest, s, i + 1, g)
                  ELSE NoMatch
              [] n.t = "rep" /\ Len(n.p) = 1 /\ n.p[1].t = "set" ->
                  \* a repeated character class: the characters it can take are a
                  \* run of the text, and the rest of the pattern decides how many
                  \* of them it takes, the most if greedy and the fewest if lazy
                  LET most == IF n.hi < 0 THEN Len(s) - i + 1
                              ELSE Min2(n.hi, Len(s) - i + 1)
                      stop == MinOf({j \in i..(i + most) :
                                       j = i + most \/ ~InClass(n.p[1], s[j])})
                  IN Bind({t \in {[r |-> r, m |-> MatchK(rest, s, i + r, g)] :
                                    r \in n.lo..(stop - i)} : t.m.ok},
                          LAMBDA T :
                            IF T = {} THEN NoMatch
                            ELSE (CHOOSE t \in T : \A u \in T :
                                    IF n.lazy THEN t.r <= u.r ELSE t.r >= u.r).m)
              [] n.t = "rep" /\ ~(Len(n.p) = 1 /\ n.p[1].t = "set") ->
                  LET again == [n EXCEPT !.lo = Max2(0, n.lo - 1),
                                         !.hi = IF n.hi > 0 THEN n.hi - 1 ELSE n.hi]
                      more == IF n.hi = 0 THEN NoMatch
                              ELSE MatchK(n.p \o <<again>> \o rest, s, i, g)
                  IN IF n.lo > 0 THEN more
                     ELSE IF n.lazy
                          THEN Bind(MatchK(rest, s, i, g),
                                    LAMBDA skip : IF skip.ok THEN skip ELSE more)
                          ELSE Bind(more,
                                    LAMBDA m : IF m.ok THEN m ELSE MatchK(rest, s, i, g))
              [] n.t = "grp" ->
                  MatchK(<<[t |-> "open", k |-> n.k]>> \o n.p
                             \o <<[t |-> "close", k |-> n.k]>> \o rest, s, i, g)
              [] n.t = "open" ->
                  MatchK(rest, s, i, [g EXCEPT ![n.k] = <<i, g[n.k][2]>>])
              [] n.t = "close" ->
                  MatchK(rest, s, i, [g EXCEPT ![n.k] = <<g[n.k][1], i>>])
              [] n.t = "alt" -> MatchAlt(n.ps, rest, s, i, g)

MatchAlt(ps, rest, s, i, g) ==
    IF Len(ps) = 0 THEN NoMatch
    ELSE Bind(MatchK(Head(ps) \o rest, s, i, g),
              LAMBDA m : IF m.ok THEN m ELSE MatchAlt(Tail(ps), rest, s, i, g))

\* the match of pattern p at position j of s; a pattern that starts with a
\* literal can only match where its first character stands
MatchAt(p, s, j) ==
    IF Head(p).t = "lit" /\ s[j] # Head(p).cs[1] THEN NoMatch
    ELSE MatchK(p, s, j, NoGroups)

RECURSIVE Leftmost(_, _)
\* of the matches M, the first that starts at i or after it, then the first
\* that starts where that one ends or after it, and so on
Leftmost(M, i) ==
    Bind({m \in M : m.b >= i},
         LAMBDA later :
           IF later = {} THEN <<>>
           ELSE Bind(CHOOSE m \in later : \A u \in later : m.b <= u.b,
                     LAMBDA m : <<m>> \o Leftmost(later, Max2(m.e, m.b + 1))))

\* the matches of p in s, one for each position where p matches
MatchesOf(p, s) ==
    {[b |-> x.b, e |-> x.m.e, g |-> x.m.g] :
       x \in {y \in {[b |-> j, m |-> MatchAt(p, s, j)] : j \in 1..Len(s)} : y.m.ok}}

\* re.finditer: the matches of p in s, leftmost first, not overlapping; no
\* pattern of the scripts matches the empty text
FindAll(p, s) ==
    Bind(<<p, s>>, LAMBDA a : Bind(MatchesOf(a[1], a[2]), LAMBDA M : Leftmost(M, 1)))

\* re.search: whether p matches somewhere in s, and the first match
Search(p, s) ==
    Bind(FindAll(p, s),
         LAMBDA ms : IF Len(ms) = 0 THEN NoMatch
                     ELSE [ok |-> TRUE, e |-> ms[1].e, g |-> ms[1].g])

\* match.group(k) of a match m in s; a group that took no part is empty
Group(s, m, k) ==
    IF m.g[k][1] = 0 \/ m.g[k][2] = 0 THEN <<>>
    ELSE SubSeq(s, m.g[k][1], m.g[k][2] - 1)

\* whether group k took part in match m
HasGroup(m, k) == m.g[k][1] # 0 /\ m.g[k][2] # 0

\* match.group(0)
Group0(s, m) == SubSeq(s, m.b, m.e - 1)

RECURSIVE Join(_, _, _)
\* ts[lo] \o ... \o ts[hi]
Join(ts, lo, hi) ==
    Bind(<<lo, hi>>,
         LAMBDA a :
           IF a[1] > a[2] THEN <<>>
           ELSE IF a[1] = a[2] THEN ts[a[1]]
           ELSE Join(ts, a[1], (a[1] + a[2]) \div 2)
                  \o Join(ts, (a[1] + a[2]) \div 2 + 1, a[2]))

\* the texts of the tuple ts, one after the other
Concat(ts) == Bind(ts, LAMBDA vs : Join(vs, 1, Len(vs)))

\* the text s with R(m) in place of each of the matches ms
Spliced(s, ms, R(_)) ==
    IF Len(ms) = 0 THEN s
    ELSE Concat([q \in 1..(2 * Len(ms) + 1) |->
                   IF q % 2 = 0 THEN R(ms[q \div 2])
                   ELSE SubSeq(s, IF q = 1 THEN 1 ELSE ms[(q - 1) \div 2].e,
                                  IF q = 2 * Len(ms) + 1 THEN Len(s)
                                  ELSE ms[(q + 1) \div 2].b - 1)])

\* re.sub(p, R, s) with a function R of the match: the text between the
\* matches, and R(match) in place of each match
SubWith(p, s, R(_)) ==
    Bind(s, LAMBDA v : Bind(FindAll(p, v), LAMBDA ms : Spliced(v, ms, R)))

\* a replacement template: pieces of literal text, each followed by a group
\* reference \k (k = 0: none)
Piece(cs, k) == [cs |-> cs, k |-> k]

RECURSIVE Expand(_, _, _)
Expand(tpl, s, m) ==
    IF Len(tpl) = 0 THEN <<>>
    ELSE Head(tpl).cs
           \o (IF Head(tpl).k = 0 THEN <<>> ELSE Group(s, m, Head(tpl).k))
           \o Expand(Tail(tpl), s, m)

\* re.sub(p, template, s)
ReSub(p, tpl, s) ==
    Bind(s, LAMBDA v : SubWith(p, v, LAMBDA m : Expand(tpl, v, m)))

\* re.sub(p, text, s) for a replacement without group references
ReSubLit(p, cs, s) == SubWith(p, s, LAMBDA m : cs)

\* a statement text = re.sub(p, template, text), and one whose replacement has
\* no group reference
Sub(p, tpl) == [p |-> p, tpl |-> tpl]
SubLit(p, cs) == Sub(p, <<Piece(cs, 0)>>)

RECURSIVE ReSubAll(_, _)
\* the statements rules run one after the other, the first on s and each of
\* the others on what the one before it gave: the second half of them on what
\* the first half gave
ReSubAll(rules, s) ==
    Bind(<<rules, s>>,
         LAMBDA a :
           IF Len(a[1]) = 0 THEN a[2]
           ELSE IF Len(a[1]) = 1 THEN ReSub(a[1][1].p, a[1][1].tpl, a[2])
           ELSE ReSubAll(SubSeq(a[1], Len(a[1]) \div 2 + 1, Len(a[1])),
                         ReSubAll(SubSeq(a[1], 1, Len(a[1]) \div 2), a[2])))

\* str.replace(old, new) for a one-character old
Replace(s, old, new) ==
    Bind(s, LAMBDA v : Concat([j \in 1..Len(v) |-> IF v[j] = old THEN new ELSE <<v[j]>>]))

\* str.strip(): without the white space at both ends
Strip(s) ==
    Bind(s, LAMBDA v :
           Bind({j \in 1..Len(v) : v[j] \notin Space},
                LAMBDA inked : IF inked = {} THEN <<>>
                               ELSE SubSeq(v, MinOf(inked), MaxOf(inked))))

\* x in s, for texts
Contains(s, x) ==
    Bind(s, LAMBDA v :
           \E i \in 1..(Len(v) - Len(x) + 1) : SubSeq(v, i, i + Len(x) - 1) = x)

-----------------------------------------------------------------------------
(* html.unescape of Python's standard library, which html_to_markdown      *)
(* (wp_transform.py:119) and the macro rules call.                         *)

\* a character outside the alphabet of this model (U+FFFD, a symbol outside ASCII, ...)
OtherCh == "U+"

\* the printable ASCII characters, chr(32) .. chr(126); the grave accent, chr(96),
\* is left outside the alphabet
Ascii == <<
    " ", "!", "\"", "#", "$", "%", "&", "'", "(", ")", "*", "+", ",", "-", ".", "/",
    "0", "1", "2", "3", "4", "5", "6", "7", "8", "9", ":", ";", "<", "=", ">", "?",
    "@", "A", "B", "C", "D", "E", "F", "G", "H", "I", "J", "K", "L", "M", "N", "O",
    "P", "Q", "R", "S", "T", "U", "V", "W", "X", "Y", "Z", "[", "\\", "]", "^", "_",
    OtherCh, "a", "b", "c", "d", "e", "f", "g", "h", "i", "j", "k", "l", "m", "n", "o",
    "p", "q", "r", "s", "t", "u", "v", "w", "x", "y", "z", "{", "|", "}", "~" >>


HexDigit == Digit \cup {"a", "b", "c", "d", "e", "f", "A", "B", "C", "D", "E", "F"}

DigitVal(c) ==
    CASE c = "0" -> 0 [] c = "1" -> 1 [] c = "2" -> 2 [] c = "3" -> 3
      [] c = "4" -> 4 [] c = "5" -> 5 [] c = "6" -> 6 [] c = "7" -> 7
      [] c = "8" -> 8 [] c = "9" -> 9
      [] c \in {"a", "A"} -> 10 [] c \in {"b", "B"} -> 11 [] c \in {"c", "C"} -> 12
      [] c \in {"d", "D"} -> 13 [] c \in {"e", "E"} -> 14 [] c \in {"f", "F"} -> 15

RECURSIVE NumVal(_, _, _)
\* int(cs, radix), acc being the value of the digits read so far
NumVal(cs, radix, acc) ==
    IF Len(cs) = 0 THEN acc
    ELSE NumVal(Tail(cs), radix, acc * radix + DigitVal(Head(cs)))

\* chr(n) for the code points the model has a character for
Chr(n) ==
    CASE n \in 32..126 -> Ascii[n - 31]
      [] n = 9 -> "\t"
      [] n = 10 -> "\n"
      [] n = 12 -> "\f"
      [] OTHER -> OtherCh

\* html._replace_charref for a numeric reference
NumericRef(n) ==
    CASE n = 13 -> (<<"\r">>)
      [] n = 0 \/ n \in 128..159 \/ n \in 55296..57343 \/ n > 1114111 -> (<<OtherCh>>)
      [] n \in 1..8 \/ n = 11 \/ n \in 14..31 \/ n = 127 -> (<<>>)
      [] OTHER -> <<Chr(n)>>

\* html.entities.html5, the entries for the characters that are markup or
\* braces; the table of the library has 2231 entries
Html5Names == {<<"a", "m", "p">>, <<"a", "m", "p", ";">>, <<"l", "t">>, <<"l", "t", ";">>, <<"g", "t">>, <<"g", "t", ";">>, <<"q", "u", "o", "t">>, <<"q", "u", "o", "t", ";">>,
               <<"l", "b", "r", "a", "c", "e", ";">>, <<"l", "c", "u", "b", ";">>, <<"r", "b", "r", "a", "c", "e", ";">>, <<"r", "c", "u", "b", ";">>, <<"a", "p", "o", "s", ";">>, <<"l", "b", "r", "a", "c", "k", ";">>, <<"r", "b", "r", "a", "c", "k", ";">>}
Html5(name) ==
    CASE name \in {<<"a", "m", "p">>, <<"a", "m", "p", ";">>} -> (<<"&">>)
      [] name \in {<<"l", "t">>, <<"l", "t", ";">>} -> (<<"<">>)
      [] name \in {<<"g", "t">>, <<"g", "t", ";">>} -> (<<">">>)
      [] name \in {<<"q", "u", "o", "t">>, <<"q", "u", "o", "t", ";">>} -> (<<"\"">>)
      [] name \in {<<"l", "b", "r", "a", "c", "e", ";">>, <<"l", "c", "u", "b", ";">>} -> (<<"{">>)
      [] name \in {<<"r", "b", "r", "a", "c", "e", ";">>, <<"r", "c", "u", "b", ";">>} -> (<<"}">>)
      [] name = <<"a", "p", "o", "s", ";">> -> (<<"'">>)
      [] name = <<"l", "b", "r", "a", "c", "k", ";">> -> (<<"[">>)
      [] name = <<"r", "b", "r", "a", "c", "k", ";">> -> (<<"]">>)

\* html._charref: &(#[0-9]+;?|#[xX][0-9a-fA-F]+;?|[^\t\n\f <&#;]{1,32};?)
CharRef ==
    <<Lit(<<"&">>),
      Grp(1, <<Alt(<< <<Lit(<<"#">>), Plus(<<In(Digit)>>), Opt(<<Lit(<<";">>)>>)>>,
                      <<Lit(<<"#">>), In({"x", "X"}), Plus(<<In(HexDigit)>>), Opt(<<Lit(<<";">>)>>)>>,
                      <<Rep(<<Not({"\t", "\n", "\f", " ", "<", "&", "#", ";"})>>, 1, 32),
                        Opt(<<Lit(<<";">>)>>)>> >>)>>)>>

RECURSIVE NamedPrefix(_, _)
\* the loop of html._replace_charref over the prefixes of r, longest first
NamedPrefix(r, x) ==
    IF x <= 1 THEN <<"&">> \o r
    ELSE IF SubSeq(r, 1, x) \in Html5Names
         THEN Html5(SubSeq(r, 1, x)) \o SubSeq(r, x + 1, Len(r))
         ELSE NamedPrefix(r, x - 1)

\* html._replace_charref
ReplaceCharRef(r0) ==
    Bind(r0, LAMBDA r :
    LET digits == IF r[Len(r)] = ";" THEN SubSeq(r, 2, Len(r) - 1) ELSE Tail(r)
    IN IF r[1] = "#"
       THEN IF digits[1] \in {"x", "X"}
            THEN NumericRef(NumVal(Tail(digits), 16, 0))
            ELSE NumericRef(NumVal(digits, 10, 0))
       ELSE IF r \in Html5Names THEN Html5(r)
            ELSE NamedPrefix(r, Len(r) - 1))

\* html.unescape
Unescape(s) ==
    Bind(s, LAMBDA v : SubWith(CharRef, v, LAMBDA m : ReplaceCharRef(Group(v, m, 1))))

-----------------------------------------------------------------------------
(* html_to_markdown, wp_transform.py:48-131.                               *)

\* <tag[^>]*>\s*(.*?)\s*</tag>, the shape of the rules of lines 74-99
Element(tag) ==
    <<Lit(<<"<">> \o tag), Star(<<Not({">"})>>), Lit(<<">">>), Star(<<In(Space)>>),
      Grp(1, <<LazyStar(<<AnyCh>>)>>), Star(<<In(Space)>>), Lit(<<"<", "/">> \o tag \o <<">">>)>>

\* <tag[^>]*>.*?</tag>, lines 62 and 65
Block(tag) ==
    <<Lit(<<"<">> \o tag), Star(<<Not({">"})>>), Lit(<<">">>), LazyStar(<<AnyCh>>),
      Lit(<<"<", "/">> \o tag \o <<">">>)>>

\* lines 56-71: comments, CSS comments, style and script blocks, CSS rules
BlockRules ==
    <<\* <!--[^>]*-->
      SubLit(<<Lit(<<"<", "!", "-", "-">>), Star(<<Not({">"})>>), Lit(<<"-", "-", ">">>)>>, <<>>),
      \* /\*!?[^*]*\*+(?:[^/*][^*]*\*+)*/
      SubLit(<<Lit(<<"/", "*">>), Opt(<<Lit(<<"!">>)>>), Star(<<Not({"*"})>>), Plus(<<Lit(<<"*">>)>>),
               Star(<<Not({"/", "*"}), Star(<<Not({"*"})>>), Plus(<<Lit(<<"*">>)>>)>>),
               Lit(<<"/">>)>>, <<>>),
      SubLit(Block(<<"s", "t", "y", "l", "e">>), <<>>),
      SubLit(Block(<<"s", "c", "r", "i", "p", "t">>), <<>>),
      \* \.elementor[^{]*\{[^}]*\}
      SubLit(<<Lit(<<".", "e", "l", "e", "m", "e", "n", "t", "o", "r">>), Star(<<Not({"{"})>>), Lit(<<"{">>),
               Star(<<Not({"}"})>>), Lit(<<"}">>)>>, <<>>),
      \* \.[a-zA-Z_-]+[^{]*\{[^}]*\}
      SubLit(<<Lit(<<".">>), Plus(<<In(Lower \cup Upper \cup {"_", "-"})>>),
               Star(<<Not({"{"})>>), Lit(<<"{">>), Star(<<Not({"}"})>>), Lit(<<"}">>)>>, <<>>)>>

RemoveBlocks(s) == ReSubAll(BlockRules, s)

\* lines 74-113: headings, paragraphs, links, emphasis, quotes, lists,
\* images, line breaks and rules
MarkupRules ==
    <<Sub(Element(<<"h", "1">>), <<Piece(<<"#", " ">>, 1), Piece(<<"\n">>, 0)>>),
      Sub(Element(<<"h", "2">>), <<Piece(<<"#", "#", " ">>, 1), Piece(<<"\n">>, 0)>>),
      Sub(Element(<<"h", "3">>), <<Piece(<<"#", "#", "#", " ">>, 1), Piece(<<"\n">>, 0)>>),
      Sub(Element(<<"h", "4">>), <<Piece(<<"#", "#", "#", "#", " ">>, 1), Piece(<<"\n">>, 0)>>),
      Sub(Element(<<"h", "5">>), <<Piece(<<"#", "#", "#", "#", "#", " ">>, 1), Piece(<<"\n">>, 0)>>),
      Sub(Element(<<"h", "6">>), <<Piece(<<"#", "#", "#", "#", "#", "#", " ">>, 1), Piece(<<"\n">>, 0)>>),
      Sub(Element(<<"p">>), <<Piece(<<>>, 1), Piece(<<"\n", "\n">>, 0)>>),
      \* <a[^>]*href="([^"]*)"[^>]*>\s*(.*?)\s*</a>  ->  [\2](\1)
      Sub(<<Lit(<<"<", "a">>), Star(<<Not({">"})>>), Lit(<<"h", "r", "e", "f", "=", "\"">>),
            Grp(1, <<Star(<<Not({"\""})>>)>>), Lit(<<"\"">>),
            Star(<<Not({">"})>>), Lit(<<">">>), Star(<<In(Space)>>),
            Grp(2, <<LazyStar(<<AnyCh>>)>>), Star(<<In(Space)>>), Lit(<<"<", "/", "a", ">">>)>>,
          <<Piece(<<"[">>, 2), Piece(<<"]", "(">>, 1), Piece(<<")">>, 0)>>),
      Sub(Element(<<"s", "t", "r", "o", "n", "g">>), <<Piece(<<"*", "*">>, 1), Piece(<<"*", "*">>, 0)>>),
      Sub(Element(<<"b">>), <<Piece(<<"*", "*">>, 1), Piece(<<"*", "*">>, 0)>>),
      Sub(Element(<<"e", "m">>), <<Piece(<<"*">>, 1), Piece(<<"*">>, 0)>>),
      Sub(Element(<<"i">>), <<Piece(<<"*">>, 1), Piece(<<"*">>, 0)>>),
      Sub(Element(<<"b", "l", "o", "c", "k", "q", "u", "o", "t", "e">>), <<Piece(<<">", " ">>, 1), Piece(<<"\n">>, 0)>>),
      Sub(Element(<<"l", "i">>), <<Piece(<<"-", " ">>, 1), Piece(<<"\n">>, 0)>>),
      SubLit(<<Lit(<<"<", "u", "l">>), Star(<<Not({">"})>>), Lit(<<">">>)>>, <<"\n">>),
      SubLit(<<Lit(<<"<", "/", "u", "l", ">">>)>>, <<"\n">>),
      SubLit(<<Lit(<<"<", "o", "l">>), Star(<<Not({">"})>>), Lit(<<">">>)>>, <<"\n">>),
      SubLit(<<Lit(<<"<", "/", "o", "l", ">">>)>>, <<"\n">>),
      \* <img[^>]*src="([^"]*)"[^>]*alt="([^"]*)"[^>]*/?\s*>  ->  ![\2](\1)\n
      Sub(<<Lit(<<"<", "i", "m", "g">>), Star(<<Not({">"})>>), Lit(<<"s", "r", "c", "=", "\"">>),
            Grp(1, <<Star(<<Not({"\""})>>)>>), Lit(<<"\"">>),
            Star(<<Not({">"})>>), Lit(<<"a", "l", "t", "=", "\"">>),
            Grp(2, <<Star(<<Not({"\""})>>)>>), Lit(<<"\"">>),
            Star(<<Not({">"})>>), Opt(<<Lit(<<"/">>)>>), Star(<<In(Space)>>), Lit(<<">">>)>>,
          <<Piece(<<"!", "[">>, 2), Piece(<<"]", "(">>, 1), Piece(<<")", "\n">>, 0)>>),
      \* <img[^>]*src="([^"]*)"[^>]*/?\s*>  ->  ![Image](\1)\n
      Sub(<<Lit(<<"<", "i", "m", "g">>), Star(<<Not({">"})>>), Lit(<<"s", "r", "c", "=", "\"">>),
            Grp(1, <<Star(<<Not({"\""})>>)>>), Lit(<<"\"">>),
            Star(<<Not({">"})>>), Opt(<<Lit(<<"/">>)>>), Star(<<In(Space)>>), Lit(<<">">>)>>,
          <<Piece(<<"!", "[", "I", "m", "a", "g", "e", "]", "(">>, 1), Piece(<<")", "\n">>, 0)>>),
      \* <br\s*/?\s*>
      SubLit(<<Lit(<<"<", "b", "r">>), Star(<<In(Space)>>), Opt(<<Lit(<<"/">>)>>),
               Star(<<In(Space)>>), Lit(<<">">>)>>, <<"\n">>),
      \* <hr[^>]*/?\s*>
      SubLit(<<Lit(<<"<", "h", "r">>), Star(<<Not({">"})>>), Opt(<<Lit(<<"/">>)>>),
               Star(<<In(Space)>>), Lit(<<">">>)>>, <<"\n", "-", "-", "-", "\n">>)>>

ConvertMarkup(s) == ReSubAll(MarkupRules, s)

\* line 116: <[^>]+>
RemoveTags(s) == ReSubLit(<<Lit(<<"<">>), Plus(<<Not({">"})>>), Lit(<<">">>)>>, <<>>, s)

\* a plausible slip: only the opening brace is escaped
EscapeOpeningBraceOnly(s) == Replace(s, "{", <<"&", "#", "1", "2", "3", ";">>)

\* lines 122-123
EscapeBraces(s) == Replace(Replace(s, "{", <<"&", "#", "1", "2", "3", ";">>), "}", <<"&", "#", "1", "2", "5", ";">>)

\* lines 126-129
WhitespaceRules ==
    <<\* \n{3,}
      SubLit(<<Rep(<<Lit(<<"\n">>)>>, 3, -1)>>, <<"\n", "\n">>),
      \* [ \t]+
      SubLit(<<Plus(<<In({" ", "\t"})>>)>>, <<" ">>),
      \* \n +
      SubLit(<<Lit(<<"\n">>), Plus(<<Lit(<<" ">>)>>)>>, <<"\n">>),
      \*  +\n
      SubLit(<<Plus(<<Lit(<<" ">>)>>), Lit(<<"\n">>)>>, <<"\n">>)>>

CleanWhitespace(s) == ReSubAll(WhitespaceRules, s)

\* lines 48-131: line 119 is html.unescape, line 131 str.strip
html_to_markdown(html_content) ==
    Bind(html_content,
         LAMBDA content :
           IF Len(content) = 0 THEN <<>>
           ELSE Strip(CleanWhitespace(EscapeBraces(Unescape(
                    RemoveTags(ConvertMarkup(RemoveBlocks(content))))))))

\* lines 133-135
clean_html(html_content) == html_to_markdown(html_content)

-----------------------------------------------------------------------------
(* convert_gutenberg_blocks, wp_transform.py:137-201.                      *)

\* <!-- wp:kind[^>]*-->\s*
BlockOpen(kind) ==
    <<Lit(<<"<", "!", "-", "-", " ", "w", "p", ":">> \o kind), Star(<<Not({">"})>>), Lit(<<"-", "-", ">">>), Star(<<In(Space)>>)>>

\* \s*<!-- /wp:kind -->
BlockClose(kind) == <<Star(<<In(Space)>>), Lit(<<"<", "!", "-", "-", " ", "/", "w", "p", ":">> \o kind \o <<" ", "-", "-", ">">>)>>

\* the two statements of one block kind: its opening marker becomes open, its
\* closing marker becomes close
Unwrap(kind, open, close) ==
    <<SubLit(BlockOpen(kind), open), SubLit(BlockClose(kind), close)>>

GutenbergRules ==
    \* lines 146-165
    Unwrap(<<"p", "a", "r", "a", "g", "r", "a", "p", "h">>, <<>>, <<>>) \o Unwrap(<<"h", "e", "a", "d", "i", "n", "g">>, <<>>, <<>>)
      \o Unwrap(<<"l", "i", "s", "t">>, <<>>, <<>>) \o Unwrap(<<"l", "i", "s", "t", "-", "i", "t", "e", "m">>, <<>>, <<>>)
      \o Unwrap(<<"q", "u", "o", "t", "e">>, <<>>, <<>>) \o Unwrap(<<"c", "o", "d", "e">>, <<>>, <<>>)
      \o Unwrap(<<"p", "r", "e", "f", "o", "r", "m", "a", "t", "t", "e", "d">>, <<>>, <<>>)
      \* lines 168-175
      \o Unwrap(<<"g", "r", "o", "u", "p">>, <<"<", "d", "i", "v", " ", "c", "l", "a", "s", "s", "=", "\"", "c", "o", "n", "t", "e", "n", "t", "-", "g", "r", "o", "u", "p", "\"", ">">>, <<"<", "/", "d", "i", "v", ">">>)
      \o Unwrap(<<"c", "o", "l", "u", "m", "n", "s">>, <<"<", "d", "i", "v", " ", "c", "l", "a", "s", "s", "=", "\"", "c", "o", "l", "u", "m", "n", "s", "\"", ">">>, <<"<", "/", "d", "i", "v", ">">>)
      \o Unwrap(<<"c", "o", "l", "u", "m", "n">>, <<"<", "d", "i", "v", " ", "c", "l", "a", "s", "s", "=", "\"", "c", "o", "l", "u", "m", "n", "\"", ">">>, <<"<", "/", "d", "i", "v", ">">>)
      \* lines 178-188
      \o Unwrap(<<"i", "m", "a", "g", "e">>, <<>>, <<>>)
      \o Unwrap(<<"g", "a", "l", "l", "e", "r", "y">>, <<"<", "d", "i", "v", " ", "c", "l", "a", "s", "s", "=", "\"", "g", "a", "l", "l", "e", "r", "y", "\"", ">">>, <<"<", "/", "d", "i", "v", ">">>)
      \o Unwrap(<<"v", "i", "d", "e", "o">>, <<>>, <<>>) \o Unwrap(<<"a", "u", "d", "i", "o">>, <<>>, <<>>)
      \* lines 191-195
      \o Unwrap(<<"e", "m", "b", "e", "d">>, <<"<", "d", "i", "v", " ", "c", "l", "a", "s", "s", "=", "\"", "e", "m", "b", "e", "d", "\"", ">">>, <<"<", "/", "d", "i", "v", ">">>)
      \o <<SubLit(BlockOpen(<<"c", "o", "r", "e", "-", "e", "m", "b", "e", "d", "/">>), <<"<", "d", "i", "v", " ", "c", "l", "a", "s", "s", "=", "\"", "e", "m", "b", "e", "d", "\"", ">">>),
           \* \s*<!-- /wp:core-embed/[^>]* -->
           SubLit(<<Star(<<In(Space)>>), Lit(<<"<", "!", "-", "-", " ", "/", "w", "p", ":", "c", "o", "r", "e", "-", "e", "m", "b", "e", "d", "/">>),
                    Star(<<Not({">"})>>), Lit(<<" ", "-", "-", ">">>)>>, <<"<", "/", "d", "i", "v", ">">>),
           \* lines 198-199: <!-- wp:[^>]* --> and <!-- /wp:[^>]* -->
           SubLit(<<Lit(<<"<", "!", "-", "-", " ", "w", "p", ":">>), Star(<<Not({">"})>>), Lit(<<" ", "-", "-", ">">>)>>, <<>>),
           SubLit(<<Lit(<<"<", "!", "-", "-", " ", "/", "w", "p", ":">>), Star(<<Not({">"})>>), Lit(<<" ", "-", "-", ">">>)>>, <<>>)>>

convert_gutenberg_blocks(content) ==
    Bind(content,
         LAMBDA text : IF Len(text) = 0 THEN <<>> ELSE ReSubAll(GutenbergRules, text))

-----------------------------------------------------------------------------
(* convert_vc_shortcodes, wp_transform.py:203-468.                         *)

\* lines 215-225
known_shortcodes ==
    {<<"v", "c", "_", "r", "o", "w">>, <<"v", "c", "_", "r", "o", "w", "_", "i", "n", "n", "e", "r">>, <<"v", "c", "_", "c", "o", "l", "u", "m", "n">>, <<"v", "c", "_", "c", "o", "l", "u", "m", "n", "_", "i", "n", "n", "e", "r">>,
     <<"v", "c", "_", "c", "o", "l", "u", "m", "n", "_", "t", "e", "x", "t">>, <<"v", "c", "_", "c", "u", "s", "t", "o", "m", "_", "h", "e", "a", "d", "i", "n", "g">>, <<"v", "c", "_", "s", "i", "n", "g", "l", "e", "_", "i", "m", "a", "g", "e">>,
     <<"v", "c", "_", "s", "e", "p", "a", "r", "a", "t", "o", "r">>, <<"v", "c", "_", "e", "m", "p", "t", "y", "_", "s", "p", "a", "c", "e">>, <<"v", "c", "_", "p", "i", "e">>, <<"v", "c", "_", "p", "r", "o", "g", "r", "e", "s", "s", "_", "b", "a", "r">>,
     <<"v", "c", "_", "t", "t", "a", "_", "s", "e", "c", "t", "i", "o", "n">>, <<"v", "c", "_", "t", "t", "a", "_", "a", "c", "c", "o", "r", "d", "i", "o", "n">>, <<"v", "c", "_", "t", "t", "a", "_", "t", "a", "b", "s">>, <<"v", "c", "_", "b", "t", "n">>,
     <<"v", "c", "_", "i", "c", "o", "n">>, <<"v", "c", "_", "g", "a", "l", "l", "e", "r", "y">>, <<"v", "c", "_", "v", "i", "d", "e", "o">>, <<"v", "c", "_", "w", "p", "_", "s", "e", "a", "r", "c", "h">>,
     <<"s", "t", "m", "_", "s", "p", "a", "c", "i", "n", "g">>, <<"s", "t", "m", "_", "i", "c", "o", "n", "_", "b", "o", "x">>, <<"s", "t", "m", "_", "s", "e", "r", "v", "i", "c", "e", "s">>, <<"s", "t", "m", "_", "n", "e", "w", "s">>,
     <<"s", "t", "m", "_", "t", "e", "s", "t", "i", "m", "o", "n", "i", "a", "l", "s">>, <<"s", "t", "m", "_", "t", "e", "s", "t", "i", "m", "o", "n", "i", "a", "l", "s", "_", "c", "a", "r", "o", "u", "s", "e", "l">>, <<"s", "t", "m", "_", "p", "a", "r", "t", "n", "e", "r">>,
     <<"s", "t", "m", "_", "p", "o", "s", "t", "_", "d", "e", "t", "a", "i", "l", "s">>, <<"s", "t", "m", "_", "i", "m", "a", "g", "e", "_", "c", "a", "r", "o", "u", "s", "e", "l">>, <<"s", "t", "m", "_", "v", "a", "c", "a", "n", "c", "i", "e", "s">>,
     <<"s", "t", "m", "_", "c", "o", "m", "p", "a", "n", "y", "_", "h", "i", "s", "t", "o", "r", "y", "_", "i", "t", "e", "m">>, <<"s", "t", "m", "_", "c", "o", "s", "t", "_", "c", "a", "l", "c", "u", "l", "a", "t", "o", "r">>}

\* a plausible slip: the set is assigned, not added to
track_unknown_assigning(registry, shortcode) ==
    IF shortcode \notin known_shortcodes THEN {shortcode} ELSE registry

\* lines 209-213: what the call leaves in unknown_shortcodes
track_unknown(registry, shortcode) ==
    IF shortcode \notin known_shortcodes THEN registry \cup {shortcode} ELSE registry

\* line 228, \[(\w+)[^\]]*\]
AnyShortcode ==
    <<Lit(<<"[">>), Grp(1, <<Plus(<<In(WordCh)>>)>>), Star(<<Not({"]"})>>), Lit(<<"]">>)>>

\* line 228: the first pass calls track_unknown for every match, in order
FirstPass(registry, content) ==
    Bind(<<content, FindAll(AnyShortcode, content)>>,
         LAMBDA a :
           LET after[k \in 0..Len(a[2])] ==
                   IF k = 0 THEN registry
                   ELSE track_unknown(after[k - 1], Group(a[1], a[2][k], 1))
           IN after[Len(a[2])])

\* \[name[^\]]*\]
Macro(name) == <<Lit(<<"[">> \o name), Star(<<Not({"]"})>>), Lit(<<"]">>)>>
\* \[name([^\]]*)\]
MacroAttrs(name) ==
    <<Lit(<<"[">> \o name), Grp(1, <<Star(<<Not({"]"})>>)>>), Lit(<<"]">>)>>
\* \[/name\]
MacroEnd(name) == <<Lit(<<"[", "/">> \o name \o <<"]">>)>>

\* re.search(r'name="([^"]+)"', attrs): the first match, when there is one
AttrMatch(name, attrs) ==
    Search(<<Lit(name \o <<"=", "\"">>), Grp(1, <<Plus(<<Not({"\""})>>)>>), Lit(<<"\"">>)>>, attrs)
HasAttr(name, attrs) == AttrMatch(name, attrs).ok
Attr(name, attrs) == Group(attrs, AttrMatch(name, attrs), 1)

\* the number of parts of str.split('/'), less one
SlashCount(s) == Bind(s, LAMBDA v : Cardinality({j \in 1..Len(v) : v[j] = "/"}))
\* num and den of line 257, for a text with one slash
BeforeSlash(s) ==
    Bind(s, LAMBDA v : SubSeq(v, 1, MinOf({j \in 1..Len(v) : v[j] = "/"}) - 1))
AfterSlash(s) ==
    Bind(s, LAMBDA v : SubSeq(v, MinOf({j \in 1..Len(v) : v[j] = "/"}) + 1, Len(v)))

\* whether int(s) accepts s: white space around an optional sign and digits,
\* with single underscores between digits
IsIntLiteral(s) ==
    Bind(Strip(s),
         LAMBDA t :
           LET d == IF Len(t) > 0 /\ t[1] \in {"+", "-"} THEN Tail(t) ELSE t
           IN /\ Len(d) > 0
              /\ \A j \in 1..Len(d) : d[j] \in Digit \cup {"_"}
              /\ d[1] # "_" /\ d[Len(d)] # "_"
              /\ \A j \in 1..(Len(d) - 1) : ~(d[j] = "_" /\ d[j + 1] = "_"))

\* int(s) for such a text
IntOf(s) ==
    Bind(Strip(s),
         LAMBDA t :
           LET d == IF t[1] \in {"+", "-"} THEN Tail(t) ELSE t
               v == NumVal(SelectSeq(d, LAMBDA c : c # "_"), 10, 0)
           IN IF t[1] = "-" THEN -v ELSE v)

RECURSIVE NatText(_)
NatText(n) ==
    IF n < 10 THEN <<Ascii[n + 17]>> ELSE NatText(n \div 10) \o <<Ascii[(n % 10) + 17]>>

\* str(n)
IntText(n) == IF n < 0 THEN <<"-">> \o NatText(-n) ELSE NatText(n)

\* line 258, int((int(num) / int(den)) * 100): the conversion to int drops the
\* fraction.  The double arithmetic of the script gives this number for
\* every numerator and denominator up to 22.
Percent(num, den) ==
    Bind(<<num, den>>,
         LAMBDA f :
           LET a == IF f[1] < 0 THEN -f[1] ELSE f[1]
               b == IF f[2] < 0 THEN -f[2] ELSE f[2]
               q == (100 * a) \div b
           IN IF (f[1] < 0) # (f[2] < 0) THEN -q ELSE q)

\* lines 256-258: the exception a width raises
WidthError(width) ==
    IF SlashCount(width) = 0 THEN "none"
    ELSE IF SlashCount(width) > 1 THEN "ValueError"
    ELSE IF ~IsIntLiteral(BeforeSlash(width)) THEN "ValueError"
    ELSE IF ~IsIntLiteral(AfterSlash(width)) THEN "ValueError"
    ELSE IF IntOf(AfterSlash(width)) = 0 THEN "ZeroDivisionError"
    ELSE "none"

\* lines 253-259: the exception convert_column raises for these attributes
ColumnError(attrs) ==
    Bind(AttrMatch(<<"w", "i", "d", "t", "h">>, attrs),
         LAMBDA width_match :
           IF width_match.ok
           THEN Bind(Group(attrs, width_match, 1), LAMBDA width : WidthError(width))
           ELSE "none")

\* lines 256-259: the class of a width that raises nothing
WidthClass(width) ==
    IF SlashCount(width) > 0
    THEN <<" ", "w", "-">> \o IntText(Percent(IntOf(BeforeSlash(width)), IntOf(AfterSlash(width))))
    ELSE <<>>

\* lines 247-263, when nothing is raised
convert_column(attrs) ==
    LET w == Bind(AttrMatch(<<"w", "i", "d", "t", "h">>, attrs),
                  LAMBDA width_match :
                    IF width_match.ok
                    THEN Bind(Group(attrs, width_match, 1),
                              LAMBDA width : WidthClass(width))
                    ELSE <<>>)
        \* offset.replace('vc_col-', 'col-')
        o == IF HasAttr(<<"o", "f", "f", "s", "e", "t">>, attrs)
             THEN <<" ">> \o ReSubLit(<<Lit(<<"v", "c", "_", "c", "o", "l", "-">>)>>, <<"c", "o", "l", "-">>, Attr(<<"o", "f", "f", "s", "e", "t">>, attrs))
             ELSE <<>>
    IN <<"<", "d", "i", "v", " ", "c", "l", "a", "s", "s", "=", "\"", "c", "o", "l", "u", "m", "n">> \o w \o o \o <<"\"", ">">>

\* lines 265 and 268: re.sub with convert_column; the first match that
\* raises ends the call
Columns(name, s) ==
    Bind(<<s, FindAll(MacroAttrs(name), s)>>,
         LAMBDA a :
           Bind({k \in 1..Len(a[2]) : ColumnError(Group(a[1], a[2][k], 1)) # "none"},
                LAMBDA bad :
                  IF bad = {}
                  THEN [exc |-> "none",
                        text |-> Spliced(a[1], a[2],
                                         LAMBDA m : convert_column(Group(a[1], m, 1)))]
                  ELSE [exc |-> ColumnError(Group(a[1], a[2][MinOf(bad)], 1)),
                        text |-> <<>>]))

\* lines 276-280
convert_heading(attrs) ==
    <<"<", "h", "2", " ", "c", "l", "a", "s", "s", "=", "\"", "s", "e", "c", "t", "i", "o", "n", "-", "h", "e", "a", "d", "i", "n", "g", "\"", ">">>
        \o Unescape(IF HasAttr(<<"t", "e", "x", "t">>, attrs) THEN Attr(<<"t", "e", "x", "t">>, attrs) ELSE <<>>)
        \o <<"<", "/", "h", "2", ">">>

\* a plausible slip: the whole link attribute is taken as the destination
convert_button_whole_link(attrs) ==
    LET title == IF HasAttr(<<"t", "i", "t", "l", "e">>, attrs) THEN Unescape(Attr(<<"t", "i", "t", "l", "e">>, attrs))
                 ELSE <<"B", "u", "t", "t", "o", "n">>
        link == IF HasAttr(<<"l", "i", "n", "k">>, attrs) THEN Unescape(Attr(<<"l", "i", "n", "k">>, attrs)) ELSE <<"#">>
    IN <<"<", "a", " ", "h", "r", "e", "f", "=", "\"">> \o link \o <<"\"", " ", "c", "l", "a", "s", "s", "=", "\"", "b", "t", "n", " ", "b", "t", "n", "-", "p", "r", "i", "m", "a", "r", "y", "\"", ">">> \o title \o <<"<", "/", "a", ">">>

\* lines 299-310
convert_button(attrs) ==
    LET title == IF HasAttr(<<"t", "i", "t", "l", "e">>, attrs) THEN Unescape(Attr(<<"t", "i", "t", "l", "e">>, attrs))
                 ELSE <<"B", "u", "t", "t", "o", "n">>
        link_str == Unescape(Attr(<<"l", "i", "n", "k">>, attrs))
        \* url:([^|]+)
        url == Search(<<Lit(<<"u", "r", "l", ":">>), Grp(1, <<Plus(<<Not({"|"})>>)>>)>>, link_str)
        link == IF HasAttr(<<"l", "i", "n", "k">>, attrs) /\ url.ok THEN Group(link_str, url, 1)
                ELSE <<"#">>
    IN <<"<", "a", " ", "h", "r", "e", "f", "=", "\"">> \o link \o <<"\"", " ", "c", "l", "a", "s", "s", "=", "\"", "b", "t", "n", " ", "b", "t", "n", "-", "p", "r", "i", "m", "a", "r", "y", "\"", ">">> \o title \o <<"<", "/", "a", ">">>

\* lines 315-328
convert_pie(attrs) ==
    LET value == IF HasAttr(<<"v", "a", "l", "u", "e">>, attrs) THEN Attr(<<"v", "a", "l", "u", "e">>, attrs) ELSE <<"0">>
        label == IF HasAttr(<<"l", "a", "b", "e", "l", "_", "v", "a", "l", "u", "e">>, attrs)
                 THEN Unescape(Attr(<<"l", "a", "b", "e", "l", "_", "v", "a", "l", "u", "e">>, attrs)) ELSE value
        title == IF HasAttr(<<"t", "i", "t", "l", "e">>, attrs) THEN Unescape(Attr(<<"t", "i", "t", "l", "e">>, attrs))
                 ELSE <<>>
    IN <<"<", "d", "i", "v", " ", "c", "l", "a", "s", "s", "=", "\"", "s", "t", "a", "t", "-", "i", "t", "e", "m", "\"", ">", "\n", " ", " ", "<", "s", "p", "a", "n", " ", "c", "l", "a", "s", "s", "=", "\"", "s", "t", "a", "t", "-", "v", "a", "l", "u", "e", "\"", ">">> \o label
         \o <<"<", "/", "s", "p", "a", "n", ">", "\n", " ", " ", "<", "s", "p", "a", "n", " ", "c", "l", "a", "s", "s", "=", "\"", "s", "t", "a", "t", "-", "l", "a", "b", "e", "l", "\"", ">">> \o title \o <<"<", "/", "s", "p", "a", "n", ">", "\n", "<", "/", "d", "i", "v", ">">>

\* lines 336-342
convert_icon_box(attrs) ==
    <<"<", "d", "i", "v", " ", "c", "l", "a", "s", "s", "=", "\"", "i", "c", "o", "n", "-", "b", "o", "x", "\"", ">", "\n", " ", " ", "<", "h", "3", ">">>
        \o (IF HasAttr(<<"t", "i", "t", "l", "e">>, attrs) THEN Unescape(Attr(<<"t", "i", "t", "l", "e">>, attrs)) ELSE <<>>)
        \o <<"<", "/", "h", "3", ">", "\n", "<", "/", "d", "i", "v", ">">>

\* lines 417-421
convert_tta_section(attrs) ==
    <<"<", "d", "i", "v", " ", "c", "l", "a", "s", "s", "=", "\"", "a", "c", "c", "o", "r", "d", "i", "o", "n", "-", "i", "t", "e", "m", "\"", ">", "<", "h", "4", " ", "c", "l", "a", "s", "s", "=", "\"", "a", "c", "c", "o", "r", "d", "i", "o", "n", "-", "t", "i", "t", "l", "e", "\"", ">">>
        \o (IF HasAttr(<<"t", "i", "t", "l", "e">>, attrs) THEN Unescape(Attr(<<"t", "i", "t", "l", "e">>, attrs))
            ELSE <<"S", "e", "c", "t", "i", "o", "n">>)
        \o <<"<", "/", "h", "4", ">", "<", "d", "i", "v", " ", "c", "l", "a", "s", "s", "=", "\"", "a", "c", "c", "o", "r", "d", "i", "o", "n", "-", "c", "o", "n", "t", "e", "n", "t", "\"", ">">>

\* lines 452-458
convert_video(attrs) ==
    LET link == IF HasAttr(<<"l", "i", "n", "k">>, attrs) THEN Attr(<<"l", "i", "n", "k">>, attrs) ELSE <<>>
    IN IF Contains(link, <<"y", "o", "u", "t", "u", "b", "e">>) \/ Contains(link, <<"y", "o", "u", "t", "u", ".", "b", "e">>)
       THEN <<"<", "d", "i", "v", " ", "c", "l", "a", "s", "s", "=", "\"", "v", "i", "d", "e", "o", "-", "e", "m", "b", "e", "d", "\"", ">", "<", "a", " ", "h", "r", "e", "f", "=", "\"">> \o link
              \o <<"\"", " ", "t", "a", "r", "g", "e", "t", "=", "\"", "_", "b", "l", "a", "n", "k", "\"", ">", "W", "a", "t", "c", "h", " ", "V", "i", "d", "e", "o", "<", "/", "a", ">", "<", "/", "d", "i", "v", ">">>
       ELSE <<"<", "d", "i", "v", " ", "c", "l", "a", "s", "s", "=", "\"", "v", "i", "d", "e", "o", "-", "e", "m", "b", "e", "d", "\"", ">", "<", "!", "-", "-", " ", "V", "i", "d", "e", "o", " ", "c", "o", "n", "t", "e", "n", "t", " ", "-", "-", ">", "<", "/", "d", "i", "v", ">">>

\* lines 230-244: the row containers
RowRules ==
    <<SubLit(Macro(<<"v", "c", "_", "r", "o", "w">>), <<"<", "s", "e", "c", "t", "i", "o", "n", " ", "c", "l", "a", "s", "s", "=", "\"", "c", "o", "n", "t", "e", "n", "t", "-", "s", "e", "c", "t", "i", "o", "n", "\"", ">">>),
      SubLit(MacroEnd(<<"v", "c", "_", "r", "o", "w">>), <<"<", "/", "s", "e", "c", "t", "i", "o", "n", ">">>),
      SubLit(Macro(<<"v", "c", "_", "r", "o", "w", "_", "i", "n", "n", "e", "r">>), <<"<", "d", "i", "v", " ", "c", "l", "a", "s", "s", "=", "\"", "r", "o", "w", "-", "i", "n", "n", "e", "r", "\"", ">">>),
      SubLit(MacroEnd(<<"v", "c", "_", "r", "o", "w", "_", "i", "n", "n", "e", "r">>), <<"<", "/", "d", "i", "v", ">">>)>>

Rows(s) == ReSubAll(RowRules, s)

\* a statement text = re.sub(p, replacement, text) whose replacement is a
\* text, and one whose replacement is the function by of the attributes
Put(p, cs) == [p |-> p, by |-> "text", cs |-> cs]
Call(name, by) == [p |-> MacroAttrs(name), by |-> by, cs |-> <<>>]

\* lines 272-463: the statements after the columns
ShortcodeRules ==
    <<Put(Macro(<<"v", "c", "_", "c", "o", "l", "u", "m", "n", "_", "t", "e", "x", "t">>), <<>>),
      Put(MacroEnd(<<"v", "c", "_", "c", "o", "l", "u", "m", "n", "_", "t", "e", "x", "t">>), <<>>),
      Call(<<"v", "c", "_", "c", "u", "s", "t", "o", "m", "_", "h", "e", "a", "d", "i", "n", "g">>, "convert_heading"),
      \* lines 285-290
      Put(MacroAttrs(<<"v", "c", "_", "s", "i", "n", "g", "l", "e", "_", "i", "m", "a", "g", "e">>),
          <<"<", "f", "i", "g", "u", "r", "e", " ", "c", "l", "a", "s", "s", "=", "\"", "w", "p", "-", "i", "m", "a", "g", "e", "\"", ">", "<", "i", "m", "g", " ", "s", "r", "c", "=", "\"", "/", "i", "m", "a", "g", "e", "s", "/", "p", "l", "a", "c", "e", "h", "o", "l", "d", "e", "r", ".", "j", "p", "g", "\"", " ", "a", "l", "t", "=", "\"", "I", "m", "a", "g", "e", "\"", " ", "/", ">", "<", "/", "f", "i", "g", "u", "r", "e", ">">>),
      Put(Macro(<<"v", "c", "_", "s", "e", "p", "a", "r", "a", "t", "o", "r">>), <<"<", "h", "r", " ", "c", "l", "a", "s", "s", "=", "\"", "s", "e", "c", "t", "i", "o", "n", "-", "d", "i", "v", "i", "d", "e", "r", "\"", " ", "/", ">">>),
      Put(Macro(<<"v", "c", "_", "e", "m", "p", "t", "y", "_", "s", "p", "a", "c", "e">>), <<"<", "d", "i", "v", " ", "c", "l", "a", "s", "s", "=", "\"", "s", "p", "a", "c", "e", "r", "\"", ">", "<", "/", "d", "i", "v", ">">>),
      Call(<<"v", "c", "_", "b", "t", "n">>, "convert_button"),
      Call(<<"v", "c", "_", "p", "i", "e">>, "convert_pie"),
      Put(Macro(<<"s", "t", "m", "_", "s", "p", "a", "c", "i", "n", "g">>), <<"<", "d", "i", "v", " ", "c", "l", "a", "s", "s", "=", "\"", "s", "p", "a", "c", "e", "r", "\"", ">", "<", "/", "d", "i", "v", ">">>),
      Call(<<"s", "t", "m", "_", "i", "c", "o", "n", "_", "b", "o", "x">>, "convert_icon_box"),
      \* lines 347-408
      Put(Macro(<<"s", "t", "m", "_", "s", "e", "r", "v", "i", "c", "e", "s">>), <<"<", "!", "-", "-", " ", "T", "O", "D", "O", ":", " ", "S", "e", "r", "v", "i", "c", "e", "s", " ", "c", "o", "m", "p", "o", "n", "e", "n", "t", " ", "n", "e", "e", "d", "s", " ", "i", "m", "p", "l", "e", "m", "e", "n", "t", "a", "t", "i", "o", "n", " ", "-", "-", ">">>),
      Put(Macro(<<"s", "t", "m", "_", "n", "e", "w", "s">>), <<"<", "!", "-", "-", " ", "T", "O", "D", "O", ":", " ", "N", "e", "w", "s", " ", "c", "o", "m", "p", "o", "n", "e", "n", "t", " ", "n", "e", "e", "d", "s", " ", "i", "m", "p", "l", "e", "m", "e", "n", "t", "a", "t", "i", "o", "n", " ", "-", "-", ">">>),
      Put(Macro(<<"s", "t", "m", "_", "t", "e", "s", "t", "i", "m", "o", "n", "i", "a", "l", "s">>),
          <<"<", "!", "-", "-", " ", "T", "O", "D", "O", ":", " ", "T", "e", "s", "t", "i", "m", "o", "n", "i", "a", "l", "s", " ", "c", "o", "m", "p", "o", "n", "e", "n", "t", " ", "n", "e", "e", "d", "s", " ", "i", "m", "p", "l", "e", "m", "e", "n", "t", "a", "t", "i", "o", "n", " ", "-", "-", ">">>),
      Put(Macro(<<"s", "t", "m", "_", "t", "e", "s", "t", "i", "m", "o", "n", "i", "a", "l", "s", "_", "c", "a", "r", "o", "u", "s", "e", "l">>),
          <<"<", "!", "-", "-", " ", "T", "O", "D", "O", ":", " ", "T", "e", "s", "t", "i", "m", "o", "n", "i", "a", "l", "s", " ", "c", "a", "r", "o", "u", "s", "e", "l", " ", "n", "e", "e", "d", "s", " ", "i", "m", "p", "l", "e", "m", "e", "n", "t", "a", "t", "i", "o", "n", " ", "-", "-", ">">>),
      Put(Macro(<<"s", "t", "m", "_", "p", "a", "r", "t", "n", "e", "r">>),
          <<"<", "!", "-", "-", " ", "T", "O", "D", "O", ":", " ", "P", "a", "r", "t", "n", "e", "r", " ", "l", "o", "g", "o", "s", " ", "c", "o", "m", "p", "o", "n", "e", "n", "t", " ", "n", "e", "e", "d", "s", " ", "i", "m", "p", "l", "e", "m", "e", "n", "t", "a", "t", "i", "o", "n", " ", "-", "-", ">">>),
      Put(Macro(<<"s", "t", "m", "_", "p", "o", "s", "t", "_", "d", "e", "t", "a", "i", "l", "s">>), <<>>),
      Put(Macro(<<"s", "t", "m", "_", "i", "m", "a", "g", "e", "_", "c", "a", "r", "o", "u", "s", "e", "l">>),
          <<"<", "!", "-", "-", " ", "T", "O", "D", "O", ":", " ", "I", "m", "a", "g", "e", " ", "c", "a", "r", "o", "u", "s", "e", "l", " ", "n", "e", "e", "d", "s", " ", "i", "m", "p", "l", "e", "m", "e", "n", "t", "a", "t", "i", "o", "n", " ", "-", "-", ">">>),
      Put(Macro(<<"s", "t", "m", "_", "v", "a", "c", "a", "n", "c", "i", "e", "s">>),
          <<"<", "!", "-", "-", " ", "T", "O", "D", "O", ":", " ", "V", "a", "c", "a", "n", "c", "i", "e", "s", "/", "c", "a", "r", "e", "e", "r", "s", " ", "l", "i", "s", "t", "i", "n", "g", " ", "n", "e", "e", "d", "s", " ", "i", "m", "p", "l", "e", "m", "e", "n", "t", "a", "t", "i", "o", "n", " ", "-", "-", ">">>),
      Put(Macro(<<"s", "t", "m", "_", "c", "o", "m", "p", "a", "n", "y", "_", "h", "i", "s", "t", "o", "r", "y", "_", "i", "t", "e", "m">>),
          <<"<", "!", "-", "-", " ", "T", "O", "D", "O", ":", " ", "C", "o", "m", "p", "a", "n", "y", " ", "h", "i", "s", "t", "o", "r", "y", " ", "i", "t", "e", "m", " ", "n", "e", "e", "d", "s", " ", "i", "m", "p", "l", "e", "m", "e", "n", "t", "a", "t", "i", "o", "n", " ", "-", "-", ">">>),
      Put(Macro(<<"s", "t", "m", "_", "c", "o", "s", "t", "_", "c", "a", "l", "c", "u", "l", "a", "t", "o", "r">>),
          <<"<", "!", "-", "-", " ", "T", "O", "D", "O", ":", " ", "C", "o", "s", "t", " ", "c", "a", "l", "c", "u", "l", "a", "t", "o", "r", " ", "n", "e", "e", "d", "s", " ", "i", "m", "p", "l", "e", "m", "e", "n", "t", "a", "t", "i", "o", "n", " ", "-", "-", ">">>),
      \* lines 411-424
      Put(Macro(<<"v", "c", "_", "t", "t", "a", "_", "a", "c", "c", "o", "r", "d", "i", "o", "n">>), <<"<", "d", "i", "v", " ", "c", "l", "a", "s", "s", "=", "\"", "a", "c", "c", "o", "r", "d", "i", "o", "n", "\"", ">">>),
      Put(MacroEnd(<<"v", "c", "_", "t", "t", "a", "_", "a", "c", "c", "o", "r", "d", "i", "o", "n">>), <<"<", "/", "d", "i", "v", ">">>),
      Put(Macro(<<"v", "c", "_", "t", "t", "a", "_", "t", "a", "b", "s">>), <<"<", "d", "i", "v", " ", "c", "l", "a", "s", "s", "=", "\"", "t", "a", "b", "s", "\"", ">">>),
      Put(MacroEnd(<<"v", "c", "_", "t", "t", "a", "_", "t", "a", "b", "s">>), <<"<", "/", "d", "i", "v", ">">>),
      Call(<<"v", "c", "_", "t", "t", "a", "_", "s", "e", "c", "t", "i", "o", "n">>, "convert_tta_section"),
      Put(MacroEnd(<<"v", "c", "_", "t", "t", "a", "_", "s", "e", "c", "t", "i", "o", "n">>), <<"<", "/", "d", "i", "v", ">", "<", "/", "d", "i", "v", ">">>),
      \* lines 427-443
      Put(Macro(<<"w", "o", "o", "c", "o", "m", "m", "e", "r", "c", "e", "_", "c", "a", "r", "t">>), <<"<", "!", "-", "-", " ", "T", "O", "D", "O", ":", " ", "S", "h", "o", "p", "p", "i", "n", "g", " ", "c", "a", "r", "t", " ", "n", "e", "e", "d", "s", " ", "i", "m", "p", "l", "e", "m", "e", "n", "t", "a", "t", "i", "o", "n", " ", "-", "-", ">">>),
      Put(Macro(<<"w", "o", "o", "c", "o", "m", "m", "e", "r", "c", "e", "_", "m", "y", "_", "a", "c", "c", "o", "u", "n", "t">>),
          <<"<", "!", "-", "-", " ", "T", "O", "D", "O", ":", " ", "A", "c", "c", "o", "u", "n", "t", " ", "p", "a", "g", "e", " ", "n", "e", "e", "d", "s", " ", "i", "m", "p", "l", "e", "m", "e", "n", "t", "a", "t", "i", "o", "n", " ", "-", "-", ">">>),
      Put(Macro(<<"c", "o", "n", "t", "a", "c", "t", "-", "f", "o", "r", "m", "-", "7">>),
          <<"<", "d", "i", "v", " ", "c", "l", "a", "s", "s", "=", "\"", "c", "o", "n", "t", "a", "c", "t", "-", "f", "o", "r", "m", "-", "p", "l", "a", "c", "e", "h", "o", "l", "d", "e", "r", "\"", ">", "<", "p", ">", "C", "o", "n", "t", "a", "c", "t", " ", "f", "o", "r", "m", " ", "-", " ", "p", "l", "e", "a", "s", "e", " ", "u", "s", "e", " ", "t", "h", "e", " ", "c", "o", "n", "t", "a", "c", "t", " ", "d", "e", "t", "a", "i", "l", "s", " ", "p", "r", "o", "v", "i", "d", "e", "d", ".", "<", "/", "p", ">", "<", "/", "d", "i", "v", ">">>),
      \* lines 446-463
      Put(Macro(<<"v", "c", "_", "w", "p", "_", "s", "e", "a", "r", "c", "h">>), <<>>),
      Put(Macro(<<"v", "c", "_", "g", "a", "l", "l", "e", "r", "y">>), <<"<", "d", "i", "v", " ", "c", "l", "a", "s", "s", "=", "\"", "g", "a", "l", "l", "e", "r", "y", "\"", ">", "<", "!", "-", "-", " ", "G", "a", "l", "l", "e", "r", "y", " ", "i", "m", "a", "g", "e", "s", " ", "-", "-", ">", "<", "/", "d", "i", "v", ">">>),
      Call(<<"v", "c", "_", "v", "i", "d", "e", "o">>, "convert_video"),
      Put(Macro(<<"v", "c", "_", "i", "c", "o", "n">>), <<>>),
      \* line 466, \[\/?[\w_-]+[^\]]*\]
      Put(<<Lit(<<"[">>), Opt(<<Lit(<<"/">>)>>), Plus(<<In(WordCh \cup {"-"})>>),
            Star(<<Not({"]"})>>), Lit(<<"]">>)>>, <<>>)>>

\* what a statement puts in the place of a match with these attributes
Replacement(rule, attrs) ==
    CASE rule.by = "text" -> rule.cs
      [] rule.by = "convert_heading" -> convert_heading(attrs)
      [] rule.by = "convert_button" -> convert_button(attrs)
      [] rule.by = "convert_pie" -> convert_pie(attrs)
      [] rule.by = "convert_icon_box" -> convert_icon_box(attrs)
      [] rule.by = "convert_tta_section" -> convert_tta_section(attrs)
      [] rule.by = "convert_video" -> convert_video(attrs)

RECURSIVE AfterColumns(_, _)
\* the statements rules run one after the other, the first on s: the second
\* half of them on what the first half gave
AfterColumns(rules, s) ==
    Bind(<<rules, s>>,
         LAMBDA a :
           IF Len(a[1]) = 0 THEN a[2]
           ELSE IF Len(a[1]) = 1
           THEN SubWith(a[1][1].p, a[2],
                        LAMBDA m : Replacement(a[1][1], Group(a[2], m, 1)))
           ELSE AfterColumns(SubSeq(a[1], Len(a[1]) \div 2 + 1, Len(a[1])),
                             AfterColumns(SubSeq(a[1], 1, Len(a[1]) \div 2), a[2])))

\* lines 203-468: the text convert_vc_shortcodes returns or the exception it
\* raises, and what it leaves in unknown_shortcodes, which held registry at
\* the call
convert_vc_shortcodes(content, registry) ==
    Bind(content,
         LAMBDA text :
           IF Len(text) = 0 THEN [exc |-> "none", text |-> <<>>, unknown |-> registry]
           ELSE Bind(<<FirstPass(registry, text), Columns(<<"v", "c", "_", "c", "o", "l", "u", "m", "n">>, Rows(text))>>,
                     LAMBDA a :
                       IF a[2].exc # "none"
                       THEN [exc |-> a[2].exc, text |-> <<>>, unknown |-> a[1]]
                       ELSE Bind(Columns(<<"v", "c", "_", "c", "o", "l", "u", "m", "n", "_", "i", "n", "n", "e", "r">>,
                                         ReSubLit(MacroEnd(<<"v", "c", "_", "c", "o", "l", "u", "m", "n">>), <<"<", "/", "d", "i", "v", ">">>,
                                                  a[2].text)),
                                 LAMBDA inner :
                                   IF inner.exc # "none"
                                   THEN [exc |-> inner.exc, text |-> <<>>, unknown |-> a[1]]
                                   ELSE [exc |-> "none",
                                         text |-> AfterColumns(
                                                    ShortcodeRules,
                                                    ReSubLit(MacroEnd(<<"v", "c", "_", "c", "o", "l", "u", "m", "n", "_", "i", "n", "n", "e", "r">>),
                                                             <<"<", "/", "d", "i", "v", ">">>, inner.text)),
                                         unknown |-> a[1]])))

-----------------------------------------------------------------------------
(* convert_internal_links and transform_content, wp_transform.py:470-593.  *)

\* re.escape(base_url) followed by /: the characters of the address, as they are
Address(url) == Lit(url \o <<"/">>)

\* a plausible slip: the rule of the pages runs before the rule of the dated links
LinkRulesPagesFirst(url) ==
    <<Sub(<<Address(url),
            Grp(1, <<Plus(<<Not({"\"", "'", ">"} \cup Space)>>)>>), Opt(<<Lit(<<"/">>)>>)>>,
          <<Piece(<<"/">>, 1), Piece(<<"/">>, 0)>>),
      Sub(<<Address(url),
            Grp(1, <<Rep(<<In(Digit)>>, 4, 4)>>), Lit(<<"/">>),
            Grp(2, <<Rep(<<In(Digit)>>, 2, 2)>>), Lit(<<"/">>),
            Grp(3, <<Rep(<<In(Digit)>>, 2, 2)>>), Lit(<<"/">>),
            Grp(4, <<Plus(<<Not({"/", "\""})>>)>>), Opt(<<Lit(<<"/">>)>>)>>,
          <<Piece(<<"/", "b", "l", "o", "g", "/">>, 4), Piece(<<"/">>, 0)>>),
      Sub(<<Grp(1, <<Not({":"})>>), Lit(<<"/", "/">>)>>, <<Piece(<<>>, 1), Piece(<<"/">>, 0)>>)>>

\* lines 476-490
LinkRules(url) ==
    <<\* base/(\d{4})/(\d{2})/(\d{2})/([^/"]+)/?  ->  /blog/\4/
      Sub(<<Address(url),
            Grp(1, <<Rep(<<In(Digit)>>, 4, 4)>>), Lit(<<"/">>),
            Grp(2, <<Rep(<<In(Digit)>>, 2, 2)>>), Lit(<<"/">>),
            Grp(3, <<Rep(<<In(Digit)>>, 2, 2)>>), Lit(<<"/">>),
            Grp(4, <<Plus(<<Not({"/", "\""})>>)>>), Opt(<<Lit(<<"/">>)>>)>>,
          <<Piece(<<"/", "b", "l", "o", "g", "/">>, 4), Piece(<<"/">>, 0)>>),
      \* base/([^"'>\s]+)/?  ->  /\1/
      Sub(<<Address(url),
            Grp(1, <<Plus(<<Not({"\"", "'", ">"} \cup Space)>>)>>), Opt(<<Lit(<<"/">>)>>)>>,
          <<Piece(<<"/">>, 1), Piece(<<"/">>, 0)>>),
      \* ([^:])//  ->  \1/
      Sub(<<Grp(1, <<Not({":"})>>), Lit(<<"/", "/">>)>>, <<Piece(<<>>, 1), Piece(<<"/">>, 0)>>)>>

\* lines 470-492
convert_internal_links(content, url) ==
    Bind(content,
         LAMBDA text : IF Len(text) = 0 THEN <<>> ELSE ReSubAll(LinkRules(url), text))

\* a plausible slip: the macros are expanded only while the registry is empty
transform_content_by_batch_state(content, url, registry) ==
    Bind(content,
         LAMBDA text :
           IF Len(text) = 0 THEN [exc |-> "none", text |-> <<>>, unknown |-> registry]
           ELSE Bind(IF registry = {}
                     THEN convert_vc_shortcodes(convert_gutenberg_blocks(text), registry)
                     ELSE [exc |-> "none", text |-> convert_gutenberg_blocks(text),
                           unknown |-> registry],
                     LAMBDA macros :
                       IF macros.exc # "none" THEN macros
                       ELSE [exc |-> "none",
                             \* line 591, \n{3,}, and line 593
                             text |-> Strip(ReSubLit(
                                        <<Rep(<<Lit(<<"\n">>)>>, 3, -1)>>, <<"\n", "\n">>,
                                        clean_html(convert_internal_links(macros.text,
                                                                          url)))),
                             unknown |-> macros.unknown]))

\* lines 573-593: the text transform_content returns or the exception that
\* leaves it, and what the call leaves in unknown_shortcodes
transform_content(content, url, registry) ==
    Bind(content,
         LAMBDA text :
           IF Len(text) = 0 THEN [exc |-> "none", text |-> <<>>, unknown |-> registry]
           ELSE Bind(convert_vc_shortcodes(convert_gutenberg_blocks(text), registry),
                     LAMBDA macros :
                       IF macros.exc # "none" THEN macros
                       ELSE [exc |-> "none",
                             \* line 591, \n{3,}, and line 593
                             text |-> Strip(ReSubLit(
                                        <<Rep(<<Lit(<<"\n">>)>>, 3, -1)>>, <<"\n", "\n">>,
                                        clean_html(convert_internal_links(macros.text,
                                                                          url)))),
                             unknown |-> macros.unknown]))

-----------------------------------------------------------------------------
(* slugify, estimate_reading_time, generate_frontmatter and save_mdx,      *)
(* wp_transform.py:32-46, 494-571 and 595-602.  A record of the export is  *)
(* a function from its keys to their values, as the dictionary json.load   *)
(* gives.                                                                  *)

\* dict.get(key, default)
Get(item, key, default) == IF key \in DOMAIN item THEN item[key] ELSE default

\* whether the value of the key is there and true for Python: a text or a
\* list that is not empty, a number that is not 0, a dictionary with a key
HasText(item, key) == key \in DOMAIN item /\ Len(item[key]) > 0
HasNumber(item, key) == key \in DOMAIN item /\ item[key] # 0
HasDict(item, key) == key \in DOMAIN item /\ DOMAIN item[key] # {}

\* sep.join(ts)
JoinWith(sep, ts) ==
    Bind(ts, LAMBDA vs :
           Concat([q \in 1..(2 * Len(vs) - 1) |->
                     IF q % 2 = 1 THEN vs[(q + 1) \div 2] ELSE sep]))

\* str.lower() of one character
LowerCh(c) ==
    IF c \in Upper THEN Ascii[(CHOOSE n \in 34..59 : Ascii[n] = c) + 32] ELSE c

\* str.strip('-')
StripHyphens(s) ==
    Bind(s, LAMBDA v :
           Bind({j \in 1..Len(v) : v[j] # "-"},
                LAMBDA kept : IF kept = {} THEN <<>>
                              ELSE SubSeq(v, MinOf(kept), MaxOf(kept))))

\* a plausible slip: the backslash is not among the characters line 36 removes
slugify_keeping_backslash(text) ==
    Bind(SelectSeq(text, LAMBDA c : c # OtherCh),
         LAMBDA ascii :
           LET lower == [j \in 1..Len(ascii) |-> LowerCh(ascii[j])]
               \* [^\w\s-]
               plain == ReSubLit(<<Not(WordCh \cup Space \cup {"-", "\\"})>>, <<>>, lower)
               \* [-\s]+
               joined == ReSubLit(<<Plus(<<In(Space \cup {"-"})>>)>>, <<"-">>, plain)
           IN StripHyphens(joined))

\* lines 32-38.  A character outside the alphabet has no ASCII form and is
\* dropped by the encoding of line 35.
slugify(text) ==
    Bind(SelectSeq(text, LAMBDA c : c # OtherCh),
         LAMBDA ascii :
           LET lower == [j \in 1..Len(ascii) |-> LowerCh(ascii[j])]
               \* [^\w\s-]
               plain == ReSubLit(<<Not(WordCh \cup Space \cup {"-"})>>, <<>>, lower)
               \* [-\s]+
               joined == ReSubLit(<<Plus(<<In(Space \cup {"-"})>>)>>, <<"-">>, plain)
           IN StripHyphens(joined))

\* len(text.split())
WordCount(text) ==
    Bind(text, LAMBDA v :
           Cardinality({j \in 1..Len(v) :
                          v[j] \notin Space /\ (j = 1 \/ v[j - 1] \in Space)}))

\* round(words / 200): to the nearest integer, a half to the even one
RoundedMinutes(words) ==
    Bind(words, LAMBDA n :
           IF n % 200 > 100 \/ (n % 200 = 100 /\ (n \div 200) % 2 = 1)
           THEN n \div 200 + 1 ELSE n \div 200)

\* lines 40-46
estimate_reading_time(content) ==
    Bind(RoundedMinutes(WordCount(RemoveTags(content))), LAMBDA minutes : Max2(1, minutes))

\* str.replace('"', '\\"')
EscapeQuotes(s) == Replace(s, "\"", <<"\\", "\"">>)

\* lines 529 and 535: ', '.join(f'"{c["slug"]}"' for c in terms)
TermList(terms) ==
    JoinWith(<<",", " ">>, [k \in 1..Len(terms) |-> <<"\"">> \o terms[k]["slug"] \o <<"\"">>])

\* lines 494-571; now is datetime.now().isoformat()
generate_frontmatter(item, item_type, now) ==
    Bind(EscapeQuotes(Get(item, "title", <<"U", "n", "t", "i", "t", "l", "e", "d">>)), LAMBDA title :
    Bind(Get(item, "slug", slugify(title)), LAMBDA slug :
    Bind(Replace(EscapeQuotes(Get(item, "excerpt", <<>>)), "\n", <<" ">>), LAMBDA e :
    LET excerpt == SubSeq(e, 1, Min2(200, Len(e)))
        fm == <<
            <<<<"-", "-", "-">>,
              <<"t", "i", "t", "l", "e", ":", " ", "\"">> \o title \o <<"\"">>,
              <<"p", "e", "r", "m", "a", "l", "i", "n", "k", ":", " ", "\"">> \o slug \o <<"\"">>,
              <<"d", "a", "t", "e", ":", " ", "\"">> \o Get(item, "date", now) \o <<"\"">>>>,
            IF HasText(item, "modified")
            THEN <<<<"u", "p", "d", "a", "t", "e", "d", ":", " ", "\"">> \o item["modified"] \o <<"\"">>>> ELSE <<>>,
            <<<<"t", "y", "p", "e", ":", " ", "\"">> \o item_type \o <<"\"">>,
              <<"s", "t", "a", "t", "u", "s", ":", " ", "\"">> \o Get(item, "status", <<"p", "u", "b", "l", "i", "s", "h">>) \o <<"\"">>>>,
            IF Len(excerpt) > 0 THEN <<<<"e", "x", "c", "e", "r", "p", "t", ":", " ", "\"">> \o excerpt \o <<"\"">>>> ELSE <<>>,
            IF HasText(item, "categories")
            THEN <<<<"c", "a", "t", "e", "g", "o", "r", "i", "e", "s", ":", " ", "[">> \o TermList(item["categories"]) \o <<"]">>>> ELSE <<>>,
            IF HasText(item, "tags")
            THEN <<<<"t", "a", "g", "s", ":", " ", "[">> \o TermList(item["tags"]) \o <<"]">>>> ELSE <<>>,
            IF HasDict(item, "featuredImage")
            THEN <<<<"f", "e", "a", "t", "u", "r", "e", "d", "I", "m", "a", "g", "e", ":", " ", "\"">> \o Get(item["featuredImage"], "url", <<>>) \o <<"\"">>,
                   <<"f", "e", "a", "t", "u", "r", "e", "d", "I", "m", "a", "g", "e", "A", "l", "t", ":", " ", "\"">>
                       \o EscapeQuotes(Get(item["featuredImage"], "alt", <<>>)) \o <<"\"">>>>
            ELSE <<>>,
            IF HasNumber(item, "authorId")
            THEN <<<<"a", "u", "t", "h", "o", "r", "I", "d", ":", " ">> \o IntText(item["authorId"])>> ELSE <<>>,
            IF item_type = <<"p", "a", "g", "e">>
            THEN <<<<"m", "e", "n", "u", "O", "r", "d", "e", "r", ":", " ">> \o IntText(Get(item, "menuOrder", 0)),
                   <<"p", "a", "r", "e", "n", "t", "I", "d", ":", " ">> \o IntText(Get(item, "parentId", 0)),
                   <<"p", "a", "t", "h", ":", " ", "\"">> \o Get(item, "fullPath", slug) \o <<"\"">>>>
            ELSE <<>>,
            IF item_type = <<"p", "o", "s", "t">>
            THEN <<<<"r", "e", "a", "d", "i", "n", "g", "T", "i", "m", "e", ":", " ">>
                     \o IntText(estimate_reading_time(Get(item, "content", <<>>)))>>
            ELSE <<>>,
            <<<<"c", "a", "n", "o", "n", "i", "c", "a", "l", "U", "r", "l", ":", " ", "\"", "/">> \o slug \o <<"/", "\"">>, <<"-", "-", "-">>>> >>
    IN JoinWith(<<"\n">>, Concat(fm)))))

\* lines 599-602: what save_mdx writes to the file
Document(frontmatter, content) == frontmatter \o <<"\n", "\n">> \o content

\* lines 612, 633 and 673
SlugOf(item) == Get(item, "slug", slugify(Get(item, "title", <<"u", "n", "t", "i", "t", "l", "e", "d">>)))

-----------------------------------------------------------------------------
(* build_page_hierarchy, wp_export.py:569-593.                             *)

\* line 572, {p['id']: p for p in pages}: of two pages with one id, the later
page_map(ps) ==
    [i \in {ps[k].id : k \in 1..Len(ps)} |->
        ps[MaxOf({k \in 1..Len(ps) : ps[k].id = i})]]

\* line 578, the condition of the while loop
HasParent(current, ps) ==
    current.parentId > 0 /\ current.parentId \in DOMAIN page_map(ps)

\* a plausible slip: the slug of the parent is put after the path
append(path, slug) == path \o <<slug>>

\* line 580, path.insert(0, slug)
insert_front(path, slug) == <<slug>> \o path

\* a dictionary with one more key, or with a new value for the key
With(dict, key, value) ==
    [k \in DOMAIN dict \cup {key} |-> IF k = key THEN value ELSE dict[k]]

\* The walk of a page whose parent links run into a cycle never leaves the
\* loop, and its path grows at every turn.  The model keeps the MaxPath
\* entries at the front of the path, and whether the number of the entries it
\* has left out is odd.  A walk that leaves the loop has gone through each
\* page at most once, so the path it returns is whole as long as MaxPath is
\* above the number of pages.
MaxPath == 5

Kept(path) == SubSeq(path, 1, Min2(Len(path), MaxPath))

\* line 584, the for loop takes the next page, and get_path starts: lines 576-577
get_path_enter ==
    /\ pc = "build_page_hierarchy"
    /\ todo # <<>>
    /\ walk' = [page |-> Head(todo), current |-> Head(todo),
                path |-> <<Head(todo).slug>>, odd |-> FALSE]
    /\ pc' = "get_path"
    /\ UNCHANGED <<body, base_url, out, out2, exc, unknown_shortcodes, raw, todo,
                   files, manifest, report, pages, hierarchy>>

\* lines 578-581, one turn of the while loop
get_path_loop ==
    /\ pc = "get_path"
    /\ HasParent(walk.current, pages)
    /\ LET parent == page_map(pages)[walk.current.parentId]
       IN walk' = [walk EXCEPT !.path = Kept(insert_front(@, parent.slug)),
                               !.odd = IF Len(walk.path) = MaxPath THEN ~@ ELSE @,
                               !.current = parent]
    /\ UNCHANGED <<pc, body, base_url, out, out2, exc, unknown_shortcodes, raw, todo,
                   files, manifest, report, pages, hierarchy>>

\* line 582, get_path returns, and lines 585-591 store what it returned
get_path_return ==
    /\ pc = "get_path"
    /\ ~HasParent(walk.current, pages)
    /\ LET fullPath == JoinWith(<<"/">>, walk.path)
           k == Len(pages) - Len(todo) + 1
       IN /\ pages' = [pages EXCEPT ![k] = With(@, "fullPath", fullPath)]
          /\ hierarchy' = With(hierarchy, walk.page.id,
                               [slug |-> walk.page.slug, fullPath |-> fullPath,
                                parentId |-> walk.page.parentId,
                                title |-> walk.page.title])
    /\ todo' = Tail(todo)
    /\ walk' = <<>>
    /\ pc' = "build_page_hierarchy"
    /\ UNCHANGED <<body, base_url, out, out2, exc, unknown_shortcodes, raw, files,
                   manifest, report>>

\* line 593, after the last page
build_page_hierarchy_return ==
    /\ pc = "build_page_hierarchy"
    /\ todo = <<>>
    /\ pc' = "hierarchy built"
    /\ UNCHANGED <<body, base_url, out, out2, exc, unknown_shortcodes, raw, todo,
                   files, manifest, report, pages, walk, hierarchy>>

-----------------------------------------------------------------------------
(* main and the functions it calls, wp_transform.py:604-756.               *)

\* lines 19-21
OUTPUT_DIR == <<"c", "o", "n", "t", "e", "n", "t">>
POSTS_DIR == OUTPUT_DIR \o <<"/", "p", "o", "s", "t", "s">>
PAGES_DIR == OUTPUT_DIR \o <<"/", "p", "a", "g", "e", "s">>

\* lines 666-667
ExcludedTypes ==
    {<<"c", "o", "s", "t", "-", "c", "a", "l", "c">>, <<"c", "o", "s", "t", "-", "c", "a", "l", "c", "-", "t", "e", "m", "p", "l", "a", "t", "e", "s">>, <<"c", "o", "s", "t", "-", "c", "a", "l", "c", "-", "c", "a", "t", "e", "g", "o", "r", "i", "e", "s">>,
     <<"w", "p", "c", "f", "7", "_", "c", "o", "n", "t", "a", "c", "t", "_", "f", "o", "r", "m">>, <<"s", "t", "m", "_", "v", "c", "_", "s", "i", "d", "e", "b", "a", "r">>, <<"e", "l", "e", "m", "e", "n", "t", "o", "r", "_", "l", "i", "b", "r", "a", "r", "y">>}

\* lines 27-30: load_json raises when the file is not there; the first of the
\* files, in the order of the calls, that is missing
Missing(filenames) ==
    LET gone == {k \in 1..Len(filenames) : filenames[k] \notin DOMAIN raw}
    IN IF gone = {} THEN "none" ELSE filenames[MinOf(gone)]

\* lines 595-602: the files after save_mdx has written the document; a file that
\* was at the path is written over
save_mdx(fs, output_path, document) == With(fs, output_path, document)

\* the values datetime.now().isoformat() can have for a record: it is only
\* called for a record without a date
Clock(item) ==
    IF "date" \in DOMAIN item THEN {<<>>}
    ELSE {<<"2", "0", "2", "4", "-", "0", "5", "-", "0", "1", "T", "1", "0", ":", "0", "0", ":", "0", "0", ".", "0", "0", "0", "0", "0", "1">>, <<"2", "0", "2", "4", "-", "0", "5", "-", "0", "1", "T", "1", "0", ":", "0", "0", ":", "0", "0", ".", "0", "0", "0", "0", "0", "2">>}

\* lines 612-614, 641-642 and 673-675: the document of a record, the exception
\* that leaves transform_content, and what the calls leave in unknown_shortcodes
Converted(item, item_type, now) ==
    Bind(transform_content(Get(item, "content", <<>>), base_url, unknown_shortcodes),
         LAMBDA content :
           [exc |-> content.exc, unknown |-> content.unknown,
            document |-> Document(generate_frontmatter(item, item_type, now),
                                  content.text)])

\* one turn of the loops of lines 611, 632 and 672: the record is converted and
\* its document saved at output_path, or the exception leaves main
Save(converted, output_path) ==
    /\ unknown_shortcodes' = converted.unknown
    /\ IF converted.exc # "none"
       THEN /\ pc' = "failed"
            /\ exc' = converted.exc
            /\ UNCHANGED <<todo, files>>
       ELSE /\ files' = save_mdx(files, output_path, converted.document)
            /\ todo' = Tail(todo)
            /\ UNCHANGED <<pc, exc>>

\* lines 607-609
transform_posts_load ==
    /\ pc = "transform_posts"
    /\ LET missing == Missing(<<"posts.json", "site.json">>)
       IN IF missing # "none"
          THEN /\ pc' = "failed"
               /\ exc' = "FileNotFoundError"
               /\ UNCHANGED <<todo, base_url>>
          ELSE /\ pc' = "posts"
               /\ todo' = raw["posts.json"]
               /\ base_url' = Get(raw["site.json"], "baseUrl", <<>>)
               /\ UNCHANGED exc
    /\ UNCHANGED <<body, out, out2, unknown_shortcodes, raw, files, manifest,
                   report, pages, walk, hierarchy>>

\* lines 611-617
transform_posts_item ==
    /\ pc = "posts"
    /\ todo # <<>>
    /\ LET post == Head(todo)
       IN \E now \in Clock(post) : \E converted \in {Converted(post, <<"p", "o", "s", "t">>, now)} :
            Save(converted, POSTS_DIR \o <<"/">> \o SlugOf(post) \o <<".", "m", "d", "x">>)
    /\ UNCHANGED <<body, base_url, out, out2, raw, manifest, report, pages, walk,
                   hierarchy>>

\* lines 619-620
transform_posts_return ==
    /\ pc = "posts"
    /\ todo = <<>>
    /\ pc' = "transform_pages"
    /\ UNCHANGED <<body, base_url, out, out2, exc, unknown_shortcodes, raw, todo,
                   files, manifest, report, pages, walk, hierarchy>>

\* lines 625-630
transform_pages_load ==
    /\ pc = "transform_pages"
    /\ LET missing == Missing(<<"pages.json", "site.json", "page-hierarchy.json">>)
       IN IF missing # "none"
          THEN /\ pc' = "failed"
               /\ exc' = "FileNotFoundError"
               /\ UNCHANGED <<todo, base_url>>
          ELSE /\ pc' = "pages"
               /\ todo' = raw["pages.json"]
               /\ base_url' = Get(raw["site.json"], "baseUrl", <<>>)
               /\ UNCHANGED exc
    /\ UNCHANGED <<body, out, out2, unknown_shortcodes, raw, files, manifest,
                   report, pages, walk, hierarchy>>

\* lines 636-639: the keys of page-hierarchy.json are the ids as texts
WithFullPath(page) ==
    LET page_hierarchy == raw["page-hierarchy.json"]
        key == IntText(page.id)
    IN With(page, "fullPath",
            IF key \in DOMAIN page_hierarchy THEN page_hierarchy[key].fullPath
            ELSE SlugOf(page))

\* lines 632-646
transform_pages_item ==
    /\ pc = "pages"
    /\ todo # <<>>
    /\ LET page == Head(todo)
       IN \E now \in Clock(page) :
            \E converted \in {Converted(WithFullPath(page), <<"p", "a", "g", "e">>, now)} :
              Save(converted, PAGES_DIR \o <<"/">> \o SlugOf(page) \o <<".", "m", "d", "x">>)
    /\ UNCHANGED <<body, base_url, out, out2, raw, manifest, report, pages, walk,
                   hierarchy>>

\* lines 648-649
transform_pages_return ==
    /\ pc = "pages"
    /\ todo = <<>>
    /\ pc' = "transform_custom_types"
    /\ UNCHANGED <<body, base_url, out, out2, exc, unknown_shortcodes, raw, todo,
                   files, manifest, report, pages, walk, hierarchy>>

\* a plausible slip: no type is skipped
CustomItemsOfAllTypes(custom_types) ==
    Concat([k \in 1..Len(custom_types) |->
              [j \in 1..Len(custom_types[k].items) |->
                 [type_name |-> custom_types[k].type_name,
                  item |-> custom_types[k].items[j]]]])

\* lines 664-672: the records of the types that are not skipped, each with the
\* name of its type, in the order of the two loops
CustomItems(custom_types) ==
    Concat([k \in 1..Len(custom_types) |->
              IF custom_types[k].type_name \in ExcludedTypes THEN <<>>
              ELSE [j \in 1..Len(custom_types[k].items) |->
                      [type_name |-> custom_types[k].type_name,
                       item |-> custom_types[k].items[j]]]])

\* lines 655-662: without custom-post-types.json there is nothing to do
transform_custom_types_load ==
    /\ pc = "transform_custom_types"
    /\ IF "custom-post-types.json" \notin DOMAIN raw
       THEN /\ pc' = "generate_media_manifest"
            /\ UNCHANGED <<todo, base_url, exc>>
       ELSE IF Missing(<<"site.json">>) # "none"
       THEN /\ pc' = "failed"
            /\ exc' = "FileNotFoundError"
            /\ UNCHANGED <<todo, base_url>>
       ELSE /\ pc' = "custom"
            /\ todo' = CustomItems(raw["custom-post-types.json"])
            /\ base_url' = Get(raw["site.json"], "baseUrl", <<>>)
            /\ UNCHANGED exc
    /\ UNCHANGED <<body, out, out2, unknown_shortcodes, raw, files, manifest,
                   report, pages, walk, hierarchy>>

\* line 670: type_name.replace('stm_', '')
TypeDir(type_name) == OUTPUT_DIR \o <<"/">> \o ReSubLit(<<Lit(<<"s", "t", "m", "_">>)>>, <<>>, type_name)

\* lines 672-678
transform_custom_types_item ==
    /\ pc = "custom"
    /\ todo # <<>>
    /\ LET type_name == Head(todo).type_name
           item == Head(todo).item
       IN \E now \in Clock(item) : \E converted \in {Converted(item, type_name, now)} :
            Save(converted, TypeDir(type_name) \o <<"/">> \o SlugOf(item) \o <<".", "m", "d", "x">>)
    /\ UNCHANGED <<body, base_url, out, out2, raw, manifest, report, pages, walk,
                   hierarchy>>

\* line 682
transform_custom_types_return ==
    /\ pc = "custom"
    /\ todo = <<>>
    /\ pc' = "generate_media_manifest"
    /\ UNCHANGED <<body, base_url, out, out2, exc, unknown_shortcodes, raw, todo,
                   files, manifest, report, pages, walk, hierarchy>>

\* lines 684-705
generate_media_manifest ==
    /\ pc = "generate_media_manifest"
    /\ IF Missing(<<"media.json">>) # "none"
       THEN /\ pc' = "failed"
            /\ exc' = "FileNotFoundError"
            /\ UNCHANGED manifest
       ELSE LET media == raw["media.json"]
            IN IF \E k \in 1..Len(media) :
                    ~({"id", "url", "mimeType", "title"} \subseteq DOMAIN media[k])
               THEN /\ pc' = "failed"
                    /\ exc' = "KeyError"
                    /\ UNCHANGED manifest
               ELSE /\ manifest' = [k \in 1..Len(media) |->
                                      [id |-> media[k].id, url |-> media[k].url,
                                       file |-> Get(media[k], "file", <<>>),
                                       mimeType |-> media[k].mimeType,
                                       title |-> media[k].title,
                                       alt |-> Get(media[k], "alt", <<>>)]]
                    /\ pc' = "generate_report"
                    /\ UNCHANGED exc
    /\ UNCHANGED <<body, base_url, out, out2, unknown_shortcodes, raw, todo, files,
                   report, pages, walk, hierarchy>>

\* list(a_set): the elements of the set, each once, in an order that is not
\* specified
Listings(S) ==
    {l \in [1..Cardinality(S) -> S] : \A i, j \in 1..Cardinality(S) : l[i] = l[j] => i = j}

\* lines 707-726
generate_report ==
    /\ pc = "generate_report"
    /\ report' \in Listings(unknown_shortcodes)
    /\ pc' = "done"
    /\ UNCHANGED <<body, base_url, out, out2, exc, unknown_shortcodes, raw, todo,
                   files, manifest, pages, walk, hierarchy>>

-----------------------------------------------------------------------------
(* Bounded inputs.                                                         *)

RECURSIVE Texts(_, _)
\* the texts made of at most n of the fragments F, one after the other
Texts(F, n) ==
    IF n = 0 THEN {<<>>}
    ELSE LET shorter == Texts(F, n - 1)
         IN shorter \cup {t \o f : t \in shorter, f \in F}

RECURSIVE Lists(_, _)
\* the lists of at most n elements of S
Lists(S, n) ==
    IF n = 0 THEN {<<>>}
    ELSE LET shorter == Lists(S, n - 1)
         IN shorter \cup {Append(l, x) : l \in shorter, x \in S}

\* what a specification leaves alone
Unused == <<>>

-----------------------------------------------------------------------------
(* SpecStages: one call of a rewriting stage on a body; html_to_markdown   *)
(* is called again on its own result.                                      *)

MaxFragments == 2

MdFragments ==
    {<<"<", "b", ">">>, <<"<", "/", "b", ">">>, <<"&", "l", "t", ";", "b", "&", "g", "t", ";", "x", "&", "l", "t", ";", "/", "b", "&", "g", "t", ";">>, <<"&", "a", "m", "p", ";", "l", "t", ";">>, <<"{">>, <<"}">>, <<"&", "#", "1", "2", "3", ";">>, <<"&", "r", "c", "u", "b", ";">>,
     <<"\n", "\n">>, <<" ">>, <<"x">>, <<".", "a", "{", "b", "}">>, <<"a", "\n", "\n", " ", "\n", "\n", "b">>}
VcFragments ==
    {<<"[", "v", "c", "_", "c", "o", "l", "u", "m", "n", " ", "w", "i", "d", "t", "h", "=", "\"", "1", "/", "3", "\"", "]">>, <<"[", "v", "c", "_", "c", "o", "l", "u", "m", "n", " ", "w", "i", "d", "t", "h", "=", "\"", "1", "/", "0", "\"", "]">>, <<"[", "v", "c", "_", "c", "o", "l", "u", "m", "n", " ", "w", "i", "d", "t", "h", "=", "\"", "a", "/", "b", "\"", "]">>,
     <<"[", "v", "c", "_", "c", "o", "l", "u", "m", "n", " ", "w", "i", "d", "t", "h", "=", "\"", "1", "/", "2", "/", "3", "\"", "]">>, <<"[", "v", "c", "_", "c", "o", "l", "u", "m", "n", "]">>, <<"[", "/", "v", "c", "_", "c", "o", "l", "u", "m", "n", "]">>, <<"[", "c", "o", "n", "t", "a", "c", "t", "-", "f", "o", "r", "m", "-", "7", " ", "i", "d", "=", "\"", "1", "\"", "]">>,
     <<"[", "f", "o", "o", "_", "b", "a", "r", " ", "x", "=", "\"", "1", "\"", "]">>, <<"[", "v", "c", "_", "r", "o", "w", "]">>, <<"x">>}
TcFragments ==
    {<<"<", "!", "-", "-", " ", "w", "p", ":", "p", "a", "r", "a", "g", "r", "a", "p", "h", " ", "-", "-", ">">>, <<"[", "f", "o", "o", " ", "a", "=", "\"", "{", "\"", "]">>, <<"[", "v", "c", "_", "c", "u", "s", "t", "o", "m", "_", "h", "e", "a", "d", "i", "n", "g", " ", "t", "e", "x", "t", "=", "\"", "{", "x", "}", "\"", "]">>,
     <<"<", "a", " ", "h", "r", "e", "f", "=", "\"", "h", "t", "t", "p", "s", ":", "/", "/", "s", ".", "i", "o", "/", "2", "0", "2", "0", "/", "0", "1", "/", "0", "2", "/", "a", "/", "\"", ">">>, <<"}">>, <<"&", "l", "b", "r", "a", "c", "e", ";">>, <<"<", "p", ">">>, <<"x">>}

\* site.json's baseUrl: a site's address, and none
BaseUrls == {<<"h", "t", "t", "p", "s", ":", "/", "/", "s", ".", "i", "o">>, <<>>}

StagesInit ==
    /\ \/ /\ pc = "html_to_markdown"
          /\ body \in Texts(MdFragments, MaxFragments)
          /\ base_url = Unused
       \/ /\ pc = "convert_vc_shortcodes"
          /\ body \in Texts(VcFragments, MaxFragments)
          /\ base_url = Unused
       \/ /\ pc = "transform_content"
          /\ body \in Texts(TcFragments, MaxFragments)
          /\ base_url \in BaseUrls
    /\ out = Unused
    /\ out2 = Unused
    /\ exc = "none"
    /\ unknown_shortcodes = {}
    /\ raw = <<>>
    /\ todo = <<>>
    /\ files = <<>>
    /\ manifest = <<>>
    /\ report = <<>>
    /\ pages = <<>>
    /\ walk = <<>>
    /\ hierarchy = <<>>

CallMarkdown ==
    /\ pc = "html_to_markdown"
    /\ out' = html_to_markdown(body)
    /\ pc' = "html_to_markdown returned"
    /\ UNCHANGED <<body, base_url, out2, exc, unknown_shortcodes, raw, todo, files,
                   manifest, report, pages, walk, hierarchy>>

CallMarkdownAgain ==
    /\ pc = "html_to_markdown returned"
    /\ out2' = html_to_markdown(out)
    /\ pc' = "html_to_markdown returned twice"
    /\ UNCHANGED <<body, base_url, out, exc, unknown_shortcodes, raw, todo, files,
                   manifest, report, pages, walk, hierarchy>>

\* what a call that returns, or that an exception leaves, does to the state
Returns(result, returned, raised) ==
    /\ out' = result.text
    /\ exc' = result.exc
    /\ unknown_shortcodes' = result.unknown
    /\ pc' = IF result.exc = "none" THEN returned ELSE raised

CallShortcodes ==
    /\ pc = "convert_vc_shortcodes"
    /\ \E result \in {convert_vc_shortcodes(body, unknown_shortcodes)} :
         Returns(result, "convert_vc_shortcodes returned", "convert_vc_shortcodes raised")
    /\ UNCHANGED <<body, base_url, out2, raw, todo, files, manifest, report, pages,
                   walk, hierarchy>>

CallTransform ==
    /\ pc = "transform_content"
    /\ \E result \in {transform_content(body, base_url, unknown_shortcodes)} :
         Returns(result, "transform_content returned", "transform_content raised")
    /\ UNCHANGED <<body, base_url, out2, raw, todo, files, manifest, report, pages,
                   walk, hierarchy>>

StagesNext == CallMarkdown \/ CallMarkdownAgain \/ CallShortcodes \/ CallTransform

SpecStages == StagesInit /\ [][StagesNext]_vars

-----------------------------------------------------------------------------
(* SpecHier: build_page_hierarchy on a list of pages.                      *)

MaxPages == 3

PageSlugs == {<<"a", "b", "o", "u", "t">>, <<"t", "e", "a", "m">>}

\* the lists of n pages with the ids 1..n; a parentId above n is the id of a
\* page that is not in the list
PageLists(n) ==
    [1..n -> [slug : PageSlugs, parentId : 0..(MaxPages + 1)]]

HierInit ==
    /\ pc = "build_page_hierarchy"
    /\ \E n \in 0..MaxPages : \E ps \in PageLists(n) :
         pages = [k \in 1..n |-> [id |-> k, slug |-> ps[k].slug,
                                  parentId |-> ps[k].parentId, title |-> <<"P", "a", "g", "e">>]]
    /\ todo = pages
    /\ walk = <<>>
    /\ hierarchy = <<>>
    /\ body = Unused
    /\ base_url = Unused
    /\ out = Unused
    /\ out2 = Unused
    /\ exc = "none"
    /\ unknown_shortcodes = {}
    /\ raw = <<>>
    /\ files = <<>>
    /\ manifest = <<>>
    /\ report = <<>>

HierNext ==
    get_path_enter \/ get_path_loop \/ get_path_return \/ build_page_hierarchy_return

\* the interpreter goes on as long as there is a statement to run
SpecHier == HierInit /\ [][HierNext]_vars /\ WF_vars(HierNext)

-----------------------------------------------------------------------------
(* Spec: main of wp_transform.py on the artifacts of an export.            *)

MaxPosts == 2

PostBodies == {<<"[", "f", "o", "o", "_", "b", "a", "r", " ", "x", "=", "\"", "1", "\"", "]", "a", "[", "/", "f", "o", "o", "_", "b", "a", "r", "]", " ", "[", "f", "o", "o", "_", "b", "a", "r", "]">>, <<"[", "c", "o", "n", "t", "a", "c", "t", "-", "f", "o", "r", "m", "-", "7", "]", "b", "[", "f", "o", "o", "_", "b", "a", "r", "]">>}
PostSlugs == {<<"h", "e", "l", "l", "o">>, <<"n", "e", "w", "s">>}

\* posts.json
PostLists ==
    {[k \in 1..Len(l) |-> [id |-> k, title |-> <<"A", " ", "\"", "p", "o", "s", "t", "\"">>, slug |-> l[k].slug,
                           date |-> <<"2", "0", "2", "0", "-", "0", "1", "-", "0", "2", "T", "0", "3", ":", "0", "4", ":", "0", "5">>, content |-> l[k].content]]
       : l \in Lists([slug : PostSlugs, content : PostBodies], MaxPosts)}

Page(id, slug, parentId, content) ==
    [id |-> id, title |-> <<"P", "a", "g", "e">>, slug |-> slug, parentId |-> parentId,
     menuOrder |-> 0, date |-> <<"2", "0", "2", "0", "-", "0", "1", "-", "0", "2", "T", "0", "3", ":", "0", "4", ":", "0", "5">>, content |-> content]

\* pages.json, page-hierarchy.json, custom-post-types.json and media.json of
\* three sites; custom-post-types.json is the list of the types with their records
Sites ==
    {[pages |-> <<>>, hierarchy |-> <<>>, custom |-> <<>>, media |-> <<>>],
     [pages |-> <<Page(1, <<"a", "b", "o", "u", "t">>, 0, <<"<", "p", ">", "A", "b", "o", "u", "t", " ", "{", "u", "s", "}", "<", "/", "p", ">">>),
                  Page(2, <<"t", "e", "a", "m">>, 1, <<"[", "v", "c", "_", "r", "o", "w", "]", "[", "w", "o", "o", "]", "<", "a", " ", "h", "r", "e", "f", "=", "\"", "h", "t", "t", "p", "s", ":", "/", "/", "s", ".", "i", "o", "/", "a", "b", "o", "u", "t", "/", "\"", ">", "x", "<", "/", "a", ">">>)>>,
      hierarchy |-> [k \in {<<"1">>, <<"2">>} |->
                       [fullPath |-> IF k = <<"1">> THEN <<"a", "b", "o", "u", "t">> ELSE <<"a", "b", "o", "u", "t", "/", "t", "e", "a", "m">>]],
      custom |-> <<[type_name |-> <<"s", "t", "m", "_", "e", "v", "e", "n", "t">>,
                    items |-> <<[id |-> 9, title |-> <<"\"", "F", "a", "i", "r", "\"">>, content |-> <<"[", "f", "o", "o", "_", "b", "a", "r", "]">>]>>],
                   [type_name |-> <<"c", "o", "s", "t", "-", "c", "a", "l", "c">>,
                    items |-> <<[id |-> 8, title |-> <<"C", "a", "l", "c">>, slug |-> <<"c", "a", "l", "c">>,
                                 content |-> <<"[", "c", "a", "l", "c", "]">>]>>]>>,
      media |-> <<[id |-> 5, url |-> <<"/", "a", ".", "p", "n", "g">>, mimeType |-> <<"i", "m", "a", "g", "e", "/", "p", "n", "g">>,
                   title |-> <<"A">>]>>],
     [pages |-> <<Page(1, <<"a", "b", "o", "u", "t">>, 0, <<>>),
                  Page(2, <<"t", "e", "a", "m">>, 1, <<"x">>),
                  Page(3, <<"j", "o", "b", "s">>, 0, <<"[", "v", "c", "_", "c", "o", "l", "u", "m", "n", " ", "w", "i", "d", "t", "h", "=", "\"", "1", "/", "2", "\"", "]", "y", "[", "/", "v", "c", "_", "c", "o", "l", "u", "m", "n", "]">>),
                  Page(4, <<"t", "e", "a", "m">>, 3, <<"z">>)>>,
      hierarchy |-> [k \in {<<"1">>, <<"2">>, <<"3">>} |->
                       [fullPath |-> IF k = <<"1">> THEN <<"a", "b", "o", "u", "t">>
                                     ELSE IF k = <<"2">> THEN <<"a", "b", "o", "u", "t", "/", "t", "e", "a", "m">> ELSE <<"j", "o", "b", "s">>]],
      custom |-> <<[type_name |-> <<"s", "t", "m", "_", "e", "v", "e", "n", "t">>,
                    items |-> <<[id |-> 9, title |-> <<"F", "a", "i", "r">>, slug |-> <<"f", "a", "i", "r">>,
                                 date |-> <<"2", "0", "2", "0", "-", "0", "1", "-", "0", "2">>,
                                 content |-> <<"[", "v", "c", "_", "c", "o", "l", "u", "m", "n", " ", "w", "i", "d", "t", "h", "=", "\"", "1", "/", "0", "\"", "]">>]>>]>>,
      media |-> <<>>]}

\* content/_raw after an export
Export(posts, site) ==
    [f \in {"site.json", "posts.json", "pages.json", "page-hierarchy.json",
            "custom-post-types.json", "media.json"} |->
       CASE f = "site.json" -> [baseUrl |-> <<"h", "t", "t", "p", "s", ":", "/", "/", "s", ".", "i", "o">>]
         [] f = "posts.json" -> posts
         [] f = "pages.json" -> site.pages
         [] f = "page-hierarchy.json" -> site.hierarchy
         [] f = "custom-post-types.json" -> site.custom
         [] f = "media.json" -> site.media]

\* content/_raw without one of the artifacts
Without(export, filename) == [f \in DOMAIN export \ {filename} |-> export[f]]

Init ==
    /\ pc = "transform_posts"
    /\ \/ \E posts \in PostLists : \E site \in Sites : raw = Export(posts, site)
       \/ \E posts \in {l \in PostLists : Len(l) = 1} : \E site \in Sites :
            /\ Len(site.pages) = 2
            /\ \E filename \in DOMAIN Export(posts, site) :
                 raw = Without(Export(posts, site), filename)
    /\ unknown_shortcodes = {}
    /\ files = <<>>
    /\ manifest = <<>>
    /\ report = <<>>
    /\ todo = <<>>
    /\ base_url = Unused
    /\ exc = "none"
    /\ body = Unused
    /\ out = Unused
    /\ out2 = Unused
    /\ pages = <<>>
    /\ walk = <<>>
    /\ hierarchy = <<>>

Next ==
    \/ transform_posts_load
    \/ transform_posts_item
    \/ transform_posts_return
    \/ transform_pages_load
    \/ transform_pages_item
    \/ transform_pages_return
    \/ transform_custom_types_load
    \/ transform_custom_types_item
    \/ transform_custom_types_return
    \/ generate_media_manifest
    \/ generate_report

Spec == Init /\ [][Next]_vars

-----------------------------------------------------------------------------
(* SpecMacros: one call of convert_vc_shortcodes, or of transform_content, *)
(* on a body that holds one macro.                                         *)

NothingRun ==
    /\ out = Unused
    /\ out2 = Unused
    /\ exc = "none"
    /\ unknown_shortcodes = {}
    /\ raw = <<>>
    /\ todo = <<>>
    /\ files = <<>>
    /\ manifest = <<>>
    /\ report = <<>>
    /\ pages = <<>>
    /\ walk = <<>>
    /\ hierarchy = <<>>

MaxTerm == 6

\* a column whose width is the fraction a/b
ColumnMacro(a, b) == <<"[", "v", "c", "_", "c", "o", "l", "u", "m", "n", " ", "w", "i", "d", "t", "h", "=", "\"">> \o IntText(a) \o <<"/">> \o IntText(b) \o <<"\"", "]">>

ColumnBodies ==
    {ColumnMacro(a, b) : a \in 1..MaxTerm, b \in 1..MaxTerm} \cup {<<"[", "v", "c", "_", "c", "o", "l", "u", "m", "n", "]">>}

ButtonTitles == {<<"G", "o">>, <<"R", "e", "a", "d", " ", "m", "o", "r", "e">>}
ButtonUrls == {<<"/", "c", "o", "n", "t", "a", "c", "t">>, <<"h", "t", "t", "p", "s", ":", "/", "/", "x", ".", "i", "o", "/", "a", "?", "b", "=", "1">>}

\* the link attribute of a button: the segments of a link, with url in one of
\* them ("first", "alone", "middle") or in none ("missing")
ButtonLink(url, shape) ==
    CASE shape = "first" -> <<"u", "r", "l", ":">> \o url \o <<"|", "t", "i", "t", "l", "e", ":", "C", "o", "n", "t", "a", "c", "t">>
      [] shape = "alone" -> <<"u", "r", "l", ":">> \o url
      [] shape = "middle" -> <<"t", "i", "t", "l", "e", ":", "C", "o", "n", "t", "a", "c", "t", "|", "u", "r", "l", ":">> \o url \o <<"|", "t", "a", "r", "g", "e", "t", ":", "_", "b", "l", "a", "n", "k">>
      [] shape = "missing" -> <<"t", "i", "t", "l", "e", ":", "C", "o", "n", "t", "a", "c", "t", "|", "t", "a", "r", "g", "e", "t", ":", "_", "b", "l", "a", "n", "k">>

LinkShapes == {"first", "alone", "middle", "missing"}

\* an attribute of a macro; no attribute at all for the value None
None == <<"none">>
Attribute(name, value) ==
    IF value = None THEN <<>> ELSE <<" ">> \o name \o <<"=", "\"">> \o value \o <<"\"">>

\* a button with the attributes title and link, in that order or the other
ButtonMacro(title, link, title_first) ==
    <<"[", "v", "c", "_", "b", "t", "n">>
      \o (IF title_first THEN Attribute(<<"t", "i", "t", "l", "e">>, title) \o Attribute(<<"l", "i", "n", "k">>, link)
          ELSE Attribute(<<"l", "i", "n", "k">>, link) \o Attribute(<<"t", "i", "t", "l", "e">>, title))
      \o <<"]">>

ButtonBodies ==
    {ButtonMacro(title, link, title_first) :
       title \in ButtonTitles \cup {None},
       link \in {ButtonLink(url, shape) : url \in ButtonUrls, shape \in LinkShapes}
                  \cup {None},
       title_first \in BOOLEAN}

\* texts with character references, each with what decoding it once gives
EntityTexts ==
    {[text |-> <<"A", " ", "&", "a", "m", "p", ";", " ", "B">>, once |-> <<"A", " ", "&", " ", "B">>],
     [text |-> <<"&", "a", "m", "p", ";", "l", "t", ";", "b", "&", "a", "m", "p", ";", "g", "t", ";">>, once |-> <<"&", "l", "t", ";", "b", "&", "g", "t", ";">>],
     [text |-> <<"1", " ", "&", "l", "t", ";", " ", "2">>, once |-> <<"1", " ", "<", " ", "2">>]}

\* the macros whose attributes are texts for the reader
HeadingMacro(text) == <<"[", "v", "c", "_", "c", "u", "s", "t", "o", "m", "_", "h", "e", "a", "d", "i", "n", "g", " ", "t", "e", "x", "t", "=", "\"">> \o text \o <<"\"", "]">>
SectionMacro(title) == <<"[", "v", "c", "_", "t", "t", "a", "_", "s", "e", "c", "t", "i", "o", "n", " ", "t", "i", "t", "l", "e", "=", "\"">> \o title \o <<"\"", "]">>

EntityBodies ==
    {HeadingMacro(t.text) : t \in EntityTexts}
    \cup {SectionMacro(t.text) : t \in EntityTexts}
    \cup {ButtonMacro(t.text, None, TRUE) : t \in EntityTexts}
    \cup {ButtonMacro(<<"G", "o">>, <<"u", "r", "l", ":", "/", "a", "?", "b", "=", "1", "&", "a", "m", "p", ";", "c", "=", "2">>, TRUE)}

\* a text column: the markers, with attributes or none, around the content
TextColumn(attrs, inner) == <<"[", "v", "c", "_", "c", "o", "l", "u", "m", "n", "_", "t", "e", "x", "t">> \o attrs \o <<"]">> \o inner \o <<"[", "/", "v", "c", "_", "c", "o", "l", "u", "m", "n", "_", "t", "e", "x", "t", "]">>

TextColumnAttrs == {<<>>, <<" ", "c", "s", "s", "=", "\"", "x", "\"">>, <<" ", "e", "l", "_", "c", "l", "a", "s", "s", "=", "\"", "a", " ", "b", "\"", " ", "c", "s", "s", "=", "\"", "x", "\"">>}
TextColumnInners == {<<"i", "n", "n", "e", "r">>, <<"<", "p", ">", "i", "n", "<", "/", "p", ">", " ", "n", "e", "r">>, <<>>}
TextColumnBodies ==
    {TextColumn(attrs, inner) : attrs \in TextColumnAttrs, inner \in TextColumnInners}
    \cup {<<"a">> \o TextColumn(attrs, <<"b">>) \o <<"c">> : attrs \in TextColumnAttrs}

\* macros of names outside the vocabulary, alone, around a text, and one inside
\* the brackets of another
StrayBodies ==
    {<<"[", "f", "o", "o", "]">>, <<"[", "/", "f", "o", "o", "]">>, <<"[", "f", "o", "o", " ", "x", "=", "\"", "1", "\"", "]", "a", "[", "/", "f", "o", "o", "]">>, <<"[", "v", "c", "_", "r", "o", "w", "]", "[", "f", "o", "o", "]", "a", "[", "/", "f", "o", "o", "]", "[", "/", "v", "c", "_", "r", "o", "w", "]">>,
     <<"[", "a", "-", "b", " ", "c", "=", "\"", "d", "\"", "]">>, <<"[", "[", "x", "]", "f", "o", "o", "]">>, <<"[", "[", "/", "x", "]", "f", "o", "o", " ", "a", "=", "\"", "1", "\"", "]">>, <<"[", "/", "[", "x", "]", "f", "o", "o", "]">>, <<"[", "a", "[", "b", "]", "c", "]">>, <<"[", "[", "f", "o", "o", "]", "]">>}

\* the names of the macros convert_vc_shortcodes has a statement for, lines
\* 230-463
DedicatedNames ==
    {<<"v", "c", "_", "r", "o", "w">>, <<"v", "c", "_", "r", "o", "w", "_", "i", "n", "n", "e", "r">>, <<"v", "c", "_", "c", "o", "l", "u", "m", "n">>, <<"v", "c", "_", "c", "o", "l", "u", "m", "n", "_", "i", "n", "n", "e", "r">>, <<"v", "c", "_", "c", "o", "l", "u", "m", "n", "_", "t", "e", "x", "t">>,
     <<"v", "c", "_", "c", "u", "s", "t", "o", "m", "_", "h", "e", "a", "d", "i", "n", "g">>, <<"v", "c", "_", "s", "i", "n", "g", "l", "e", "_", "i", "m", "a", "g", "e">>, <<"v", "c", "_", "s", "e", "p", "a", "r", "a", "t", "o", "r">>, <<"v", "c", "_", "e", "m", "p", "t", "y", "_", "s", "p", "a", "c", "e">>,
     <<"v", "c", "_", "b", "t", "n">>, <<"v", "c", "_", "p", "i", "e">>, <<"s", "t", "m", "_", "s", "p", "a", "c", "i", "n", "g">>, <<"s", "t", "m", "_", "i", "c", "o", "n", "_", "b", "o", "x">>, <<"s", "t", "m", "_", "s", "e", "r", "v", "i", "c", "e", "s">>, <<"s", "t", "m", "_", "n", "e", "w", "s">>,
     <<"s", "t", "m", "_", "t", "e", "s", "t", "i", "m", "o", "n", "i", "a", "l", "s">>, <<"s", "t", "m", "_", "t", "e", "s", "t", "i", "m", "o", "n", "i", "a", "l", "s", "_", "c", "a", "r", "o", "u", "s", "e", "l">>, <<"s", "t", "m", "_", "p", "a", "r", "t", "n", "e", "r">>,
     <<"s", "t", "m", "_", "p", "o", "s", "t", "_", "d", "e", "t", "a", "i", "l", "s">>, <<"s", "t", "m", "_", "i", "m", "a", "g", "e", "_", "c", "a", "r", "o", "u", "s", "e", "l">>, <<"s", "t", "m", "_", "v", "a", "c", "a", "n", "c", "i", "e", "s">>,
     <<"s", "t", "m", "_", "c", "o", "m", "p", "a", "n", "y", "_", "h", "i", "s", "t", "o", "r", "y", "_", "i", "t", "e", "m">>, <<"s", "t", "m", "_", "c", "o", "s", "t", "_", "c", "a", "l", "c", "u", "l", "a", "t", "o", "r">>, <<"v", "c", "_", "t", "t", "a", "_", "a", "c", "c", "o", "r", "d", "i", "o", "n">>,
     <<"v", "c", "_", "t", "t", "a", "_", "t", "a", "b", "s">>, <<"v", "c", "_", "t", "t", "a", "_", "s", "e", "c", "t", "i", "o", "n">>, <<"w", "o", "o", "c", "o", "m", "m", "e", "r", "c", "e", "_", "c", "a", "r", "t">>, <<"w", "o", "o", "c", "o", "m", "m", "e", "r", "c", "e", "_", "m", "y", "_", "a", "c", "c", "o", "u", "n", "t">>,
     <<"c", "o", "n", "t", "a", "c", "t", "-", "f", "o", "r", "m", "-", "7">>, <<"v", "c", "_", "w", "p", "_", "s", "e", "a", "r", "c", "h">>, <<"v", "c", "_", "g", "a", "l", "l", "e", "r", "y">>, <<"v", "c", "_", "v", "i", "d", "e", "o">>, <<"v", "c", "_", "i", "c", "o", "n">>}

\* a macro without attributes
Bare(name) == <<"[">> \o name \o <<"]">>

DedicatedBodies == {Bare(name) : name \in DedicatedNames}

\* the macros that stand around a content, each with the two elements of its
\* own statements (lines 230-244, 265-269, 411-415)
Containers ==
    {[name |-> <<"v", "c", "_", "r", "o", "w">>, open |-> <<"<", "s", "e", "c", "t", "i", "o", "n", " ", "c", "l", "a", "s", "s", "=", "\"", "c", "o", "n", "t", "e", "n", "t", "-", "s", "e", "c", "t", "i", "o", "n", "\"", ">">>,
      close |-> <<"<", "/", "s", "e", "c", "t", "i", "o", "n", ">">>],
     [name |-> <<"v", "c", "_", "r", "o", "w", "_", "i", "n", "n", "e", "r">>, open |-> <<"<", "d", "i", "v", " ", "c", "l", "a", "s", "s", "=", "\"", "r", "o", "w", "-", "i", "n", "n", "e", "r", "\"", ">">>, close |-> <<"<", "/", "d", "i", "v", ">">>],
     [name |-> <<"v", "c", "_", "c", "o", "l", "u", "m", "n">>, open |-> <<"<", "d", "i", "v", " ", "c", "l", "a", "s", "s", "=", "\"", "c", "o", "l", "u", "m", "n", "\"", ">">>, close |-> <<"<", "/", "d", "i", "v", ">">>],
     [name |-> <<"v", "c", "_", "c", "o", "l", "u", "m", "n", "_", "i", "n", "n", "e", "r">>, open |-> <<"<", "d", "i", "v", " ", "c", "l", "a", "s", "s", "=", "\"", "c", "o", "l", "u", "m", "n", "\"", ">">>, close |-> <<"<", "/", "d", "i", "v", ">">>],
     [name |-> <<"v", "c", "_", "t", "t", "a", "_", "a", "c", "c", "o", "r", "d", "i", "o", "n">>, open |-> <<"<", "d", "i", "v", " ", "c", "l", "a", "s", "s", "=", "\"", "a", "c", "c", "o", "r", "d", "i", "o", "n", "\"", ">">>, close |-> <<"<", "/", "d", "i", "v", ">">>],
     [name |-> <<"v", "c", "_", "t", "t", "a", "_", "t", "a", "b", "s">>, open |-> <<"<", "d", "i", "v", " ", "c", "l", "a", "s", "s", "=", "\"", "t", "a", "b", "s", "\"", ">">>, close |-> <<"<", "/", "d", "i", "v", ">">>]}

\* a container opened and closed around a text
Contained(name, attrs, inner) ==
    <<"[">> \o name \o attrs \o <<"]">> \o inner \o <<"[", "/">> \o name \o <<"]">>

ContainerAttrs == {<<>>, <<" ", "c", "s", "s", "=", "\"", "a", "\"">>}
ContainerBodies ==
    {Contained(c.name, attrs, <<"x">>) : c \in Containers, attrs \in ContainerAttrs}

MacroBodies ==
    ColumnBodies \cup ButtonBodies \cup EntityBodies \cup TextColumnBodies
      \cup StrayBodies \cup DedicatedBodies \cup ContainerBodies

\* bodies whose markup is written with character references
EncodedBodies ==
    {<<"&", "l", "t", ";", "s", "c", "r", "i", "p", "t", "&", "g", "t", ";", "a", "l", "e", "r", "t", "(", "1", ")", "&", "l", "t", ";", "/", "s", "c", "r", "i", "p", "t", "&", "g", "t", ";">>, <<"<", "p", ">", "a", " ", "&", "l", "t", ";", "b", "&", "g", "t", ";", "c", "&", "l", "t", ";", "/", "b", "&", "g", "t", ";", "<", "/", "p", ">">>,
     <<"&", "#", "6", "0", ";", "i", "&", "#", "6", "2", ";">>, <<"<", "p", ">", "1", " ", "&", "l", "t", ";", " ", "2", "<", "/", "p", ">">>}

\* the bodies that go through the whole of transform_content
TransformBodies ==
    ColumnBodies \cup {HeadingMacro(t.text) : t \in EntityTexts}
                 \cup {SectionMacro(t.text) : t \in EntityTexts}
                 \cup EncodedBodies \cup StrayBodies

MacrosInit ==
    /\ \/ pc = "convert_vc_shortcodes" /\ body \in MacroBodies
       \/ pc = "transform_content" /\ body \in TransformBodies
    /\ base_url = <<"h", "t", "t", "p", "s", ":", "/", "/", "s", ".", "i", "o">>
    /\ NothingRun

MacrosNext == CallShortcodes \/ CallTransform

SpecMacros == MacrosInit /\ [][MacrosNext]_vars

-----------------------------------------------------------------------------
(* SpecLinks: one call of convert_internal_links on a body that holds      *)
(* addresses, for the address of a site.                                   *)

\* site.json's baseUrl
LinkBases == {<<"h", "t", "t", "p", ":", "/", "/", "e", "x", "a", "m", "p", "l", "e", ".", "c", "o", "m">>, <<"h", "t", "t", "p", "s", ":", "/", "/", "s", ".", "i", "o">>, <<>>}

\* what stands before and after an address in a body
LinkContexts ==
    {[pre |-> <<>>, post |-> <<>>],
     [pre |-> <<"<", "a", " ", "h", "r", "e", "f", "=", "\"">>, post |-> <<"\"", ">", "x", "<", "/", "a", ">">>],
     [pre |-> <<"<", "a", " ", "h", "r", "e", "f", "=", "'">>, post |-> <<"'", ">", "x", "<", "/", "a", ">">>],
     [pre |-> <<"s", "e", "e", " ">>, post |-> <<" ", "n", "o", "w">>]}

LinkDates == {<<"2", "0", "2", "1", "/", "0", "5", "/", "0", "3">>, <<"1", "9", "9", "9", "/", "1", "2", "/", "3", "1">>}
LinkSlugs == {<<"h", "e", "l", "l", "o">>, <<"a", "-", "b", "_", "c">>}

\* the permalink of a post of the site at base: base/YYYY/MM/DD/slug/
DatedLink(base, date, slug) == base \o <<"/">> \o date \o <<"/">> \o slug \o <<"/">>

\* addresses that are not under the address of any of the sites
ForeignUrls ==
    {<<"/", "/", "c", "d", "n", ".", "o", "t", "h", "e", "r", ".", "c", "o", "m", "/", "x">>, <<"h", "t", "t", "p", "s", ":", "/", "/", "o", "t", "h", "e", "r", ".", "c", "o", "m", "/", "a", "/", "/", "b">>, <<"h", "t", "t", "p", "s", ":", "/", "/", "o", "t", "h", "e", "r", ".", "c", "o", "m", "/", "2", "0", "2", "1", "/", "0", "5", "/", "0", "3", "/", "x", "/">>,
     <<"h", "t", "t", "p", ":", "/", "/", "o", "t", "h", "e", "r", ".", "c", "o", "m", "/", "p">>, <<"m", "a", "i", "l", "t", "o", ":", "a", "@", "b", ".", "c">>}

Within(context, address) == context.pre \o address \o context.post

LinkBodies(base) ==
    {Within(context, DatedLink(base, date, slug)) :
       context \in LinkContexts, date \in LinkDates, slug \in LinkSlugs}
    \cup {DatedLink(base, date, <<"h", "e", "l", "l", "o">>) \o <<" ">> \o DatedLink(base, <<"2", "0", "2", "1", "/", "0", "5", "/", "0", "3">>, slug) :
            date \in LinkDates, slug \in LinkSlugs}
    \cup {Within(context, url) : context \in LinkContexts, url \in ForeignUrls}
    \cup {<<>>}

LinksInit ==
    /\ pc = "convert_internal_links"
    /\ base_url \in LinkBases
    /\ body \in LinkBodies(base_url)
    /\ NothingRun

CallLinks ==
    /\ pc = "convert_internal_links"
    /\ out' = convert_internal_links(body, base_url)
    /\ pc' = "convert_internal_links returned"
    /\ UNCHANGED <<body, base_url, out2, exc, unknown_shortcodes, raw, todo, files,
                   manifest, report, pages, walk, hierarchy>>

LinksNext == CallLinks

SpecLinks == LinksInit /\ [][LinksNext]_vars

-----------------------------------------------------------------------------
(* SpecFrontmatter: one call of generate_frontmatter on a record of the    *)
(* export.                                                                 *)

\* titles, each with the slug the specification gives to it: lower-case,
\* without the characters that are no word characters, the runs of blanks and
\* hyphens made one hyphen, no hyphen at either end
FrontTitles ==
    {[title |-> <<"H", "e", "l", "l", "o", " ", "\"", "W", "o", "r", "l", "d", "\"">>, slug |-> <<"h", "e", "l", "l", "o", "-", "w", "o", "r", "l", "d">>],
     [title |-> <<" ", " ", "R", "o", "c", "k", " ", "&", " ", "R", "o", "l", "l", " ", "-", "-", " ", "2", " ">>, slug |-> <<"r", "o", "c", "k", "-", "r", "o", "l", "l", "-", "2">>],
     [title |-> <<"A", "_", "b", ".", "C">>, slug |-> <<"a", "_", "b", "c">>]}

\* the slug of a record: none (the key is not there), the empty one the
\* exporter writes for a record without a slug (wp_export.py:192), or one
FrontSlugs == {None, <<>>, <<"m", "y", "-", "p", "o", "s", "t">>}

\* an excerpt whose 200th character is a quote
LongExcerpt == [k \in 1..199 |-> "x"] \o <<"\"", "t", "a", "i", "l">>

\* values of the other keys of a record
FrontValues ==
    <<[key |-> "status", value |-> <<"p", "u", "b", "l", "i", "s", "h">>],
     [key |-> "status", value |-> <<"o", "n", " ", "\"", "h", "o", "l", "d", "\"">>],
     [key |-> "modified", value |-> <<"2", "0", "2", "0", "-", "0", "2", "-", "0", "3", "T", "0", "4", ":", "0", "5", ":", "0", "6">>],
     [key |-> "excerpt", value |-> <<"A", " ", "\"", "s", "h", "o", "r", "t", "\"", "\n", "s", "u", "m", "m", "a", "r", "y">>],
     [key |-> "excerpt", value |-> LongExcerpt],
     [key |-> "categories", value |-> <<[slug |-> <<"n", "e", "w", "s">>], [slug |-> <<"a", "-", "b">>]>>],
     [key |-> "tags", value |-> <<[slug |-> <<"x", "\"", "y">>]>>],
     [key |-> "featuredImage", value |-> [url |-> <<"/", "a", ".", "p", "n", "g">>, alt |-> <<"A", "n", " ", "\"", "A", "\"">>]],
     [key |-> "featuredImage", value |-> [url |-> <<"/", "a", "\"", "b", ".", "p", "n", "g">>]],
     [key |-> "fullPath", value |-> <<"a", "b", "o", "u", "t", "/", "t", "e", "a", "m">>],
     [key |-> "fullPath", value |-> <<"a", "\"", "b">>],
     [key |-> "authorId", value |-> 7]>>

\* a record with a title, maybe a slug, and one more key
FrontItem(title, slug, more) ==
    LET item == [id |-> 1, title |-> title, date |-> <<"2", "0", "2", "0", "-", "0", "1", "-", "0", "2", "T", "0", "3", ":", "0", "4", ":", "0", "5">>,
                 content |-> <<"a", " ", "b">>]
        keyed == With(item, more.key, more.value)
    IN IF slug = None THEN keyed ELSE With(keyed, "slug", slug)

FrontTypes == {<<"p", "o", "s", "t">>, <<"p", "a", "g", "e">>}

\* the numbers of words of the bodies whose reading time is computed
ReadingWords == {0, 1, 99, 100, 101, 299, 300, 301, 499, 500, 501, 700, 900}

\* a body of n words, bare or in a paragraph element
Words(n) == [k \in 1..(2 * n) |-> IF k % 2 = 1 THEN "w" ELSE " "]
ReadingBodies == {Words(n) : n \in ReadingWords} \cup {<<"<", "p", ">">> \o Words(n) \o <<"<", "/", "p", ">">> : n \in ReadingWords}

\* a record with a body to read
ReadingItem(content) ==
    [id |-> 1, title |-> <<"L", "o", "n", "g">>, slug |-> <<"l", "o", "n", "g">>, date |-> <<"2", "0", "2", "0", "-", "0", "1", "-", "0", "2", "T", "0", "3", ":", "0", "4", ":", "0", "5">>,
     content |-> content]

FrontmatterInit ==
    /\ pc = "generate_frontmatter"
    /\ \/ \E t \in FrontTitles, slug \in FrontSlugs, k \in DOMAIN FrontValues,
             item_type \in FrontTypes :
            todo = <<[item |-> FrontItem(t.title, slug, FrontValues[k]),
                      item_type |-> item_type]>>
       \/ \E content \in ReadingBodies, item_type \in FrontTypes \cup {<<"s", "t", "m", "_", "e", "v", "e", "n", "t">>} :
            todo = <<[item |-> ReadingItem(content), item_type |-> item_type]>>
    /\ body = Unused
    /\ base_url = Unused
    /\ out = Unused
    /\ out2 = Unused
    /\ exc = "none"
    /\ unknown_shortcodes = {}
    /\ raw = <<>>
    /\ files = <<>>
    /\ manifest = <<>>
    /\ report = <<>>
    /\ pages = <<>>
    /\ walk = <<>>
    /\ hierarchy = <<>>

CallFrontmatter ==
    /\ pc = "generate_frontmatter"
    /\ \E now \in Clock(todo[1].item) :
         out' = generate_frontmatter(todo[1].item, todo[1].item_type, now)
    /\ pc' = "generate_frontmatter returned"
    /\ UNCHANGED <<body, base_url, out2, exc, unknown_shortcodes, raw, todo, files,
                   manifest, report, pages, walk, hierarchy>>

FrontmatterNext == CallFrontmatter

SpecFrontmatter == FrontmatterInit /\ [][FrontmatterNext]_vars

-----------------------------------------------------------------------------
(* SpecBlocks: one call of convert_gutenberg_blocks on a body that holds a *)
(* pair of block markers.                                                  *)

\* kinds of blocks that have statements of their own, and kinds that have none
TableKinds == {<<"p", "a", "r", "a", "g", "r", "a", "p", "h">>, <<"g", "r", "o", "u", "p">>, <<"c", "o", "l", "u", "m", "n", "s">>, <<"c", "o", "l", "u", "m", "n">>}
OtherKinds == {<<"f", "o", "o">>, <<"g", "r", "o", "u", "p", "x">>, <<"p", "a", "r", "a", "g", "r", "a", "p", "h", "s">>, <<"f", "o", "o", "/", "b", "a", "r">>}

\* the attributes of an opening marker
BlockAttrs == {<<>>, <<" ", "{", "\"", "a", "\"", ":", "1", "}">>}

\* the end of a marker: with the blank before --> or without it
MarkerEnd(tight) == IF tight THEN <<"-", "-", ">">> ELSE <<" ", "-", "-", ">">>

\* <!-- wp:kind attrs -->inner<!-- /wp:kind -->
BlockPair(kind, attrs, tight, inner) ==
    <<"<", "!", "-", "-", " ", "w", "p", ":">> \o kind \o attrs \o MarkerEnd(tight) \o inner
      \o <<"<", "!", "-", "-", " ", "/", "w", "p", ":">> \o kind \o MarkerEnd(tight)

BlockInners == {<<"a">>, <<"<", "p", ">", "b", "<", "/", "p", ">">>, <<>>}

BlockBodies ==
    {BlockPair(kind, attrs, tight, inner) :
       kind \in TableKinds \cup OtherKinds, attrs \in BlockAttrs,
       tight \in BOOLEAN, inner \in BlockInners}

BlocksInit ==
    /\ pc = "convert_gutenberg_blocks"
    /\ body \in BlockBodies
    /\ base_url = Unused
    /\ NothingRun

CallGutenberg ==
    /\ pc = "convert_gutenberg_blocks"
    /\ out' = convert_gutenberg_blocks(body)
    /\ pc' = "convert_gutenberg_blocks returned"
    /\ UNCHANGED <<body, base_url, out2, exc, unknown_shortcodes, raw, todo, files,
                   manifest, report, pages, walk, hierarchy>>

BlocksNext == CallGutenberg

SpecBlocks == BlocksInit /\ [][BlocksNext]_vars

-----------------------------------------------------------------------------
(* SpecBatchState: one call of transform_content in the middle of a batch, *)
(* after the records before it have left names in the registry.            *)

\* what unknown_shortcodes can hold when a record is converted
EarlierNames == {<<"f", "o", "o">>, <<"x">>, <<"w", "o", "o">>}

BatchBodies ==
    StrayBodies \cup EncodedBodies
      \cup {<<"[", "v", "c", "_", "c", "o", "l", "u", "m", "n", " ", "w", "i", "d", "t", "h", "=", "\"", "1", "/", "2", "\"", "]", "a", "[", "/", "v", "c", "_", "c", "o", "l", "u", "m", "n", "]">>, <<"[", "v", "c", "_", "c", "o", "l", "u", "m", "n", " ", "w", "i", "d", "t", "h", "=", "\"", "1", "/", "0", "\"", "]">>,
            <<"<", "!", "-", "-", " ", "w", "p", ":", "g", "r", "o", "u", "p", " ", "-", "-", ">", "<", "p", ">", "a", " ", "{", "b", "}", "<", "/", "p", ">", "<", "!", "-", "-", " ", "/", "w", "p", ":", "g", "r", "o", "u", "p", " ", "-", "-", ">">>, <<"p", "l", "a", "i", "n", " ", "t", "e", "x", "t">>, <<>>}

BatchStateInit ==
    /\ pc = "transform_content"
    /\ body \in BatchBodies
    /\ base_url = <<"h", "t", "t", "p", "s", ":", "/", "/", "s", ".", "i", "o">>
    /\ unknown_shortcodes \in SUBSET EarlierNames
    /\ out = Unused
    /\ out2 = Unused
    /\ exc = "none"
    /\ raw = <<>>
    /\ todo = <<>>
    /\ files = <<>>
    /\ manifest = <<>>
    /\ report = <<>>
    /\ pages = <<>>
    /\ walk = <<>>
    /\ hierarchy = <<>>

BatchStateNext == CallTransform

SpecBatchState == BatchStateInit /\ [][BatchStateNext]_vars

-----------------------------------------------------------------------------
(* The claims.                                                             *)

\* C1: html_to_markdown applied to its own output returns that output
\* unchanged, for every body
Idempotent == pc = "html_to_markdown returned twice" => out2 = out

\* no character of the text is a brace
NoBrace(text) == \A j \in 1..Len(text) : text[j] \notin {"{", "}"}

\* C2: for every body and base URL, what html_to_markdown returns, on a body
\* and on its own output, and what transform_content returns holds no raw
\* brace
NoRawBrace ==
    /\ pc \in {"html_to_markdown returned", "transform_content returned"} => NoBrace(out)
    /\ pc = "html_to_markdown returned twice" => NoBrace(out2)

\* transform_content has returned for a body with a brace that no rule
\* removes, and the brace is there as its numeric reference
BraceEscaped ==
    /\ pc = "transform_content returned"
    /\ Contains(body, <<"{", "x", "}">>)
    /\ Contains(out, <<"&", "#", "1", "2", "3", ";", "x", "&", "#", "1", "2", "5", ";">>)

\* the names of the macro invocations [name ...] of a body, a name being
\* letters, digits, underscores and hyphens
InvokedNames(text) ==
    LET ms == FindAll(<<Lit(<<"[">>), Grp(1, <<Plus(<<In(WordCh \cup {"-"})>>)>>),
                        Star(<<Not({"]"})>>), Lit(<<"]">>)>>, text)
    IN {Group(text, ms[k], 1) : k \in 1..Len(ms)}

\* the bodies of the records a run converts
ConvertedBodies ==
    LET custom == IF "custom-post-types.json" \in DOMAIN raw
                  THEN CustomItems(raw["custom-post-types.json"]) ELSE <<>>
    IN {raw["posts.json"][k].content : k \in 1..Len(raw["posts.json"])}
         \cup {raw["pages.json"][k].content : k \in 1..Len(raw["pages.json"])}
         \cup {custom[k].item.content : k \in 1..Len(custom)}

\* C3: after a run, every macro name outside the known vocabulary that occurs
\* in the body of a record is in the report's unknownShortcodes exactly once
ReportedOnce ==
    pc = "done" =>
      \A b \in ConvertedBodies : \A name \in InvokedNames(b) \ known_shortcodes :
        Cardinality({k \in 1..Len(report) : report[k] = name}) = 1

\* C4: no step of a run takes a name out of unknown_shortcodes
Monotonic == [][unknown_shortcodes \subseteq unknown_shortcodes']_vars

\* the pages are being converted, and unknown_shortcodes holds a name the
\* posts left there with a name a page has added
RegistryGrown ==
    /\ pc = "pages"
    /\ <<"f", "o", "o", "_", "b", "a", "r">> \in unknown_shortcodes
    /\ <<"w", "o", "o">> \in unknown_shortcodes

\* C5: after convert_vc_shortcodes, every name of a macro invocation of the
\* body that is outside the known vocabulary is in unknown_shortcodes
AllUnknownTracked ==
    pc \in {"convert_vc_shortcodes returned", "convert_vc_shortcodes raised"} =>
      (InvokedNames(body) \ known_shortcodes) \subseteq unknown_shortcodes

\* C6: build_page_hierarchy returns for every list of pages: no walk of
\* get_path goes on for ever
WalkTerminates == <>(pc = "hierarchy built")

RECURSIVE Rooted(_, _)
\* page k is top-level, or its parent is a page of the list that is itself
\* rooted, within n parent links: its ancestors are in the list and no page
\* is its own ancestor
Rooted(k, n) ==
    \/ pages[k].parentId = 0
    \/ /\ n > 0
       /\ pages[k].parentId \in 1..Len(pages)
       /\ Rooted(pages[k].parentId, n - 1)

RECURSIVE SlugsFromRoot(_)
\* the slugs of the ancestors of a rooted page k, root first, then its own
SlugsFromRoot(k) ==
    IF pages[k].parentId = 0 THEN <<pages[k].slug>>
    ELSE SlugsFromRoot(pages[k].parentId) \o <<pages[k].slug>>

\* C7: the fullPath of a page whose ancestors are all in the list, none its
\* own ancestor, is the slugs of its ancestors, root first, and its own slug,
\* joined by slashes
FullPathFromRoot ==
    pc = "hierarchy built" =>
      \A k \in 1..Len(pages) :
        Rooted(k, Len(pages)) =>
          /\ pages[k].fullPath = JoinWith(<<"/">>, SlugsFromRoot(k))
          /\ hierarchy[k].fullPath = JoinWith(<<"/">>, SlugsFromRoot(k))

\* the hierarchy is built for a list with a page team under the top-level
\* page about, and a page under team
AboutTeam ==
    /\ pc = "hierarchy built"
    /\ Len(pages) = 3
    /\ pages[1].slug = <<"a", "b", "o", "u", "t">> /\ pages[1].parentId = 0
    /\ pages[2].slug = <<"t", "e", "a", "m">> /\ pages[2].parentId = 1
    /\ pages[2].fullPath = <<"a", "b", "o", "u", "t", "/", "t", "e", "a", "m">>
    /\ pages[3].parentId = 2
    /\ pages[3].fullPath = <<"a", "b", "o", "u", "t", "/", "t", "e", "a", "m", "/">> \o pages[3].slug

\* the number of records a run converts
Records ==
    Len(raw["posts.json"]) + Len(raw["pages.json"])
      + (IF "custom-post-types.json" \in DOMAIN raw
         THEN Len(CustomItems(raw["custom-post-types.json"])) ELSE 0)

\* C8: after a run over N records there are N documents: no document has
\* been written over by the document of another record
OneDocumentPerRecord == pc = "done" => Cardinality(DOMAIN files) = Records

\* C9: when a run stops because an artifact of the export is missing, no
\* document has been written
NothingWrittenBeforeFailure ==
    (pc = "failed" /\ exc = "FileNotFoundError") => DOMAIN files = {}

\* C10: convert_vc_shortcodes raises for no body
NeverRaises == pc # "convert_vc_shortcodes raised"

\* a/b times 100, to the nearest whole number
NearestPercent(a, b) == (200 * a + b) \div (2 * b)

\* C11: the class of a column whose width is the fraction a/b is w- followed
\* by 100*a/b rounded to the nearest whole number
WidthRounded ==
    \A a \in 1..MaxTerm, b \in 1..MaxTerm :
      (pc = "convert_vc_shortcodes returned" /\ body = ColumnMacro(a, b)) =>
        out = <<"<", "d", "i", "v", " ", "c", "l", "a", "s", "s", "=", "\"", "c", "o", "l", "u", "m", "n", " ", "w", "-">> \o IntText(NearestPercent(a, b)) \o <<"\"", ">">>


\* the link element of a button
Anchor(destination, text) ==
    <<"<", "a", " ", "h", "r", "e", "f", "=", "\"">> \o destination \o <<"\"", " ", "c", "l", "a", "s", "s", "=", "\"", "b", "t", "n", " ", "b", "t", "n", "-", "p", "r", "i", "m", "a", "r", "y", "\"", ">">> \o text \o <<"<", "/", "a", ">">>

\* C12: a button becomes a link element whose destination is the url segment of
\* its link attribute, up to the next |, and whose text is its title; without a
\* link attribute, or without a url segment in it, the destination is #, and
\* without a title the text is Button
ButtonExpanded ==
    \A title \in ButtonTitles \cup {None}, title_first \in BOOLEAN :
      /\ \A url \in ButtonUrls, shape \in LinkShapes :
           (/\ pc = "convert_vc_shortcodes returned"
            /\ body = ButtonMacro(title, ButtonLink(url, shape), title_first)) =>
             out = Anchor(IF shape = "missing" THEN <<"#">> ELSE url,
                          IF title = None THEN <<"B", "u", "t", "t", "o", "n">> ELSE title)
      /\ (/\ pc = "convert_vc_shortcodes returned"
          /\ body = ButtonMacro(title, None, title_first)) =>
           out = Anchor(<<"#">>, IF title = None THEN <<"B", "u", "t", "t", "o", "n">> ELSE title)

\* the button of the specification's scenario has been expanded
ButtonScenario ==
    /\ pc = "convert_vc_shortcodes returned"
    /\ body = <<"[", "v", "c", "_", "b", "t", "n", " ", "l", "i", "n", "k", "=", "\"", "u", "r", "l", ":", "/", "c", "o", "n", "t", "a", "c", "t", "|", "t", "i", "t", "l", "e", ":", "C", "o", "n", "t", "a", "c", "t", "\"", " ", "t", "i", "t", "l", "e", "=", "\"", "G", "o", "\"", "]">>
    /\ out = <<"<", "a", " ", "h", "r", "e", "f", "=", "\"", "/", "c", "o", "n", "t", "a", "c", "t", "\"", " ", "c", "l", "a", "s", "s", "=", "\"", "b", "t", "n", " ", "b", "t", "n", "-", "p", "r", "i", "m", "a", "r", "y", "\"", ">", "G", "o", "<", "/", "a", ">">>

\* C13: on a site whose address is not empty, a dated permalink
\* base/YYYY/MM/DD/slug/ of a body becomes /blog/slug/, and what stands around
\* it stays; the result never holds the relative path /YYYY/MM/DD/slug/
DatedLinkToBlog ==
    (pc = "convert_internal_links returned" /\ base_url # <<>>) =>
      \A date \in LinkDates, slug \in LinkSlugs :
        /\ \A context \in LinkContexts :
             body = Within(context, DatedLink(base_url, date, slug)) =>
               out = Within(context, <<"/", "b", "l", "o", "g", "/">> \o slug \o <<"/">>)
        /\ body = DatedLink(base_url, date, <<"h", "e", "l", "l", "o">>) \o <<" ">>
                    \o DatedLink(base_url, <<"2", "0", "2", "1", "/", "0", "5", "/", "0", "3">>, slug) =>
             out = <<"/", "b", "l", "o", "g", "/", "h", "e", "l", "l", "o", "/", " ", "/", "b", "l", "o", "g", "/">> \o slug \o <<"/">>
        /\ ~Contains(out, <<"/">> \o date \o <<"/">> \o slug \o <<"/">>)

\* the permalink of the specification's scenario has been rewritten
HelloToBlog ==
    /\ pc = "convert_internal_links returned"
    /\ base_url = <<"h", "t", "t", "p", ":", "/", "/", "e", "x", "a", "m", "p", "l", "e", ".", "c", "o", "m">>
    /\ body = <<"h", "t", "t", "p", ":", "/", "/", "e", "x", "a", "m", "p", "l", "e", ".", "c", "o", "m", "/", "2", "0", "2", "1", "/", "0", "5", "/", "0", "3", "/", "h", "e", "l", "l", "o", "/">>
    /\ out = <<"/", "b", "l", "o", "g", "/", "h", "e", "l", "l", "o", "/">>

\* C14: an address of a body that is not under the address of the site is in
\* the result as it was in the body
ForeignLinkUntouched ==
    pc = "convert_internal_links returned" =>
      \A context \in LinkContexts, url \in ForeignUrls :
        body = Within(context, url) => out = body

\* the frontmatter has the line
HasLine(frontmatter, line) ==
    Contains(<<"\n">> \o frontmatter \o <<"\n">>, <<"\n">> \o line \o <<"\n">>)

\* C15: the permalink of a record that supplies no slug, its slug missing or
\* empty, is the slug of its title
PermalinkFromTitle ==
    pc = "generate_frontmatter returned" =>
      \A t \in FrontTitles :
        (/\ todo[1].item["title"] = t.title
         /\ Get(todo[1].item, "slug", <<>>) = <<>>) =>
          HasLine(out, <<"p", "e", "r", "m", "a", "l", "i", "n", "k", ":", " ", "\"">> \o t.slug \o <<"\"">>)

\* the lines of a text, one for each pair of line ends that follow each other
LinesIn(text) ==
    LET ends == {k \in 1..Len(text) : text[k] = "\n"} \cup {0, Len(text) + 1}
    IN {SubSeq(text, a + 1, b - 1) :
          <<a, b>> \in {p \in ends \X ends :
                          /\ p[1] < p[2]
                          /\ \A k \in ends : ~(p[1] < k /\ k < p[2])}}

\* the quotes of a line that no backslash escapes: those after an even number
\* of backslashes
OpenQuotes(line) ==
    {k \in 1..Len(line) :
       /\ line[k] = "\""
       /\ LET others == {j \in 1..(k - 1) : line[j] # "\\"} \cup {0}
          IN (k - 1 - MaxOf(others)) % 2 = 0}

\* a line key: "value" whose value ends at the quote that ends the line, and
\* a line key: ["value", "value"] with as many values as the list has
ValueQuoted(line) ==
    Cardinality(OpenQuotes(line)) = 2 /\ Len(line) \in OpenQuotes(line)
ValuesQuoted(line, terms) ==
    /\ Cardinality(OpenQuotes(line)) = 2 * Len(terms)
    /\ Len(line) - 1 \in OpenQuotes(line)

\* C16: every text value of a frontmatter is between two quotes, the quotes
\* inside it escaped, so that it ends at its closing quote: title, excerpt,
\* permalink, status, the slugs of the categories and tags, the address and the
\* alt of the featured image, and path
AllValuesQuoted ==
    pc = "generate_frontmatter returned" =>
      \A line \in LinesIn(out) :
        IF Search(<<Lit(<<"c", "a", "t", "e", "g", "o", "r", "i", "e", "s", ":", " ", "[">>)>>, line).ok
        THEN ValuesQuoted(line, todo[1].item["categories"])
        ELSE IF Search(<<Lit(<<"t", "a", "g", "s", ":", " ", "[">>)>>, line).ok
        THEN ValuesQuoted(line, todo[1].item["tags"])
        ELSE Contains(line, <<":", " ", "\"">>) => ValueQuoted(line)

\* a < b for two texts, as Python compares two strings
Before(a, b) ==
    \E k \in 1..Len(b) :
      /\ k <= Len(a) + 1
      /\ SubSeq(a, 1, k - 1) = SubSeq(b, 1, k - 1)
      /\ \/ k = Len(a) + 1
         \/ (CHOOSE n \in DOMAIN Ascii : Ascii[n] = a[k])
              < (CHOOSE n \in DOMAIN Ascii : Ascii[n] = b[k])

\* C17: the unknownShortcodes of the report are in ascending order, no name
\* twice
ReportSorted ==
    pc = "done" => \A i, j \in DOMAIN report : i < j => Before(report[i], report[j])

\* the types of custom-post-types.json that are on the list of line 666, and
\* the others
SkippedTypes ==
    IF "custom-post-types.json" \in DOMAIN raw
    THEN {k \in DOMAIN raw["custom-post-types.json"] :
            raw["custom-post-types.json"][k].type_name \in ExcludedTypes}
    ELSE {}
OtherTypes ==
    IF "custom-post-types.json" \in DOMAIN raw
    THEN DOMAIN raw["custom-post-types.json"] \ SkippedTypes
    ELSE {}

\* C18: a record of a custom type of the exclusion list is skipped: it is never
\* among the records to convert, no document is written for it, and the macro
\* of its body never enters the registry; the records of the other types of the
\* batch have their documents once the batch is over
ExcludedSkipped ==
    /\ pc = "custom" => \A k \in DOMAIN todo : todo[k].type_name \notin ExcludedTypes
    /\ \A path \in DOMAIN files : ~Contains(path, <<"c", "a", "l", "c">>)
    /\ <<"c", "a", "l", "c">> \notin unknown_shortcodes
    /\ (pc \in {"generate_media_manifest", "generate_report", "done"}
          /\ SkippedTypes # {}) =>
         \A k \in OtherTypes :
           \A j \in DOMAIN raw["custom-post-types.json"][k].items :
             LET type == raw["custom-post-types.json"][k]
             IN TypeDir(type.type_name) \o <<"/">> \o SlugOf(type.items[j]) \o <<".", "m", "d", "x">>
                  \in DOMAIN files

\* a batch with a record of a skipped type and a record of another type is over
EventWithoutCalc ==
    /\ pc = "done"
    /\ SkippedTypes # {}
    /\ OtherTypes # {}
    /\ <<"c", "o", "n", "t", "e", "n", "t", "/", "e", "v", "e", "n", "t", "/", "f", "a", "i", "r", ".", "m", "d", "x">> \in DOMAIN files
    /\ <<"f", "o", "o", "_", "b", "a", "r">> \in unknown_shortcodes
    /\ <<"c", "a", "l", "c">> \notin unknown_shortcodes

\* the character references of the bodies
References == {<<"&", "a", "m", "p", ";">>, <<"&", "l", "t", ";">>, <<"&", "g", "t", ";">>}

\* C19: the stage of the macros decodes no character reference: a reference in
\* an attribute of a heading, a button or a section is in what
\* convert_vc_shortcodes returns; and a reference of a heading's text is
\* decoded once by the whole of transform_content
EntitiesDecodedOnce ==
    /\ (pc = "convert_vc_shortcodes returned" /\ body \in EntityBodies) =>
         \A reference \in References : Contains(body, reference) => Contains(out, reference)
    /\ \A t \in EntityTexts :
         (pc = "transform_content returned" /\ body = HeadingMacro(t.text)) =>
           out = <<"#", "#", " ">> \o t.once

\* C20: of a text column, the stage of the macros keeps the content and drops
\* the two markers with their attributes: nothing stands for the opening marker
TextColumnUnwrapped ==
    pc = "convert_vc_shortcodes returned" =>
      \A attrs \in TextColumnAttrs :
        /\ \A inner \in TextColumnInners : body = TextColumn(attrs, inner) => out = inner
        /\ body = <<"a">> \o TextColumn(attrs, <<"b">>) \o <<"c">> => out = <<"a", "b", "c">>

\* an opening or a closing macro: [name ...] or [/name]
BracketTag ==
    <<Lit(<<"[">>), Opt(<<Lit(<<"/">>)>>), Plus(<<In(WordCh \cup {"-"})>>),
      Star(<<Not({"]"})>>), Lit(<<"]">>)>>

\* C21: what convert_vc_shortcodes returns holds no opening and no closing
\* macro, whatever the body, macros inside the brackets of other macros included
NoMacroLeft ==
    pc = "convert_vc_shortcodes returned" => ~Search(BracketTag, out).ok

\* C22: of a pair of markers whose kind has no statement of its own,
\* convert_gutenberg_blocks drops the two markers and puts no element for them,
\* and no marker is left in what it returns: also for a kind whose name begins
\* with the name of a kind of the table, and for markers without the blank
\* before -->
GenericMarkersStripped ==
    pc = "convert_gutenberg_blocks returned" =>
      /\ \A kind \in OtherKinds, attrs \in BlockAttrs, tight \in BOOLEAN,
            inner \in BlockInners :
           body = BlockPair(kind, attrs, tight, inner) => out = inner
      /\ ~Contains(out, <<"<", "!", "-", "-", " ", "w", "p", ":">>)
      /\ ~Contains(out, <<"<", "!", "-", "-", " ", "/", "w", "p", ":">>)

\* n / 200 to the nearest whole number, a half upwards, and 1 at least
MinutesHalfUp(n) == IF (n + 100) \div 200 < 1 THEN 1 ELSE (n + 100) \div 200

\* C23: the readingTime of a post is max(1, round(w / 200)), w the number of
\* words of its body without the tags and a half rounded upwards (500 words
\* give 3); a record of another type has no readingTime
ReadingTimeRounded ==
    pc = "generate_frontmatter returned" =>
      /\ \A n \in ReadingWords :
           (/\ todo[1].item_type = <<"p", "o", "s", "t">>
            /\ todo[1].item["content"] \in {Words(n), <<"<", "p", ">">> \o Words(n) \o <<"<", "/", "p", ">">>}) =>
             HasLine(out, <<"r", "e", "a", "d", "i", "n", "g", "T", "i", "m", "e", ":", " ">> \o IntText(MinutesHalfUp(n)))
      /\ todo[1].item_type # <<"p", "o", "s", "t">> => ~Contains(out, <<"r", "e", "a", "d", "i", "n", "g", "T", "i", "m", "e">>)

\* the names of the macros of a body that are outside the vocabulary
UnknownNames(content) ==
    LET pattern == <<Lit(<<"[">>), Grp(1, <<Plus(<<In(WordCh \cup {"-"})>>)>>),
                     Star(<<Not({"]"})>>), Lit(<<"]">>)>>
        found == FindAll(pattern, content)
    IN {Group(content, found[k], 1) : k \in DOMAIN found} \ known_shortcodes

\* the bodies of the records a run converts: the posts, the pages, and the
\* records of the custom types that are not skipped
ConvertedContents ==
    LET bodies(items) == {Get(items[k], "content", <<>>) : k \in DOMAIN items}
        custom == IF "custom-post-types.json" \in DOMAIN raw
                  THEN raw["custom-post-types.json"] ELSE <<>>
    IN bodies(raw["posts.json"]) \cup bodies(raw["pages.json"])
         \cup UNION {bodies(custom[k].items) :
                       k \in {j \in DOMAIN custom : custom[j].type_name \notin ExcludedTypes}}

\* C24: whatever the order of the records, the registry at the end of a run is
\* the union of the unknown names of the bodies of its records
RegistryIsUnion ==
    pc = "done" =>
      unknown_shortcodes = UNION {UnknownNames(content) : content \in ConvertedContents}

\* C25: a body whose only macro has a statement of its own in
\* convert_vc_shortcodes adds no name to the registry
DedicatedAreKnown ==
    (pc = "convert_vc_shortcodes returned" /\ body \in DedicatedBodies) =>
      unknown_shortcodes = {}

\* C26: a container that is opened and closed becomes the opening element of
\* its own statement, the content, and the closing element that goes with it:
\* never the opening element of a macro whose name begins its name
ContainersMatched ==
    pc = "convert_vc_shortcodes returned" =>
      \A c \in Containers, attrs \in ContainerAttrs :
        body = Contained(c.name, attrs, <<"x">>) => out = c.open \o <<"x">> \o c.close

\* an opening or a closing tag: <name ...> or </name>
MarkupTag ==
    <<Lit(<<"<">>), Opt(<<Lit(<<"/">>)>>), In(Lower \cup Upper),
      Star(<<Not({">"})>>), Lit(<<">">>)>>

\* C27: what transform_content returns holds no tag, also for a body whose tags
\* are written with character references
NoTagLeft ==
    pc = "transform_content returned" => ~Search(MarkupTag, out).ok

\* C28: the text transform_content returns for a body and an address, or the
\* exception that leaves it, is the one it returns when no record was converted
\* before, whatever the registry holds at the call
SameTextInAnyBatch ==
    pc \in {"transform_content returned", "transform_content raised"} =>
      LET alone == transform_content(body, base_url, {})
      IN out = alone.text /\ exc = alone.exc

\* a macro was expanded while the registry held names of earlier records
ExpandedMidBatch ==
    /\ pc = "transform_content returned"
    /\ body = <<"[", "v", "c", "_", "c", "o", "l", "u", "m", "n", " ", "w", "i", "d", "t", "h", "=", "\"", "1", "/", "2", "\"", "]", "a", "[", "/", "v", "c", "_", "c", "o", "l", "u", "m", "n", "]">>
    /\ <<"f", "o", "o">> \in unknown_shortcodes
    /\ out = <<"a">>

\* a body without markup: no tag, no comment, no entity
Plain(text) == \A j \in 1..Len(text) : text[j] \notin {"<", ">", "&"}

RECURSIVE WordsOf(_, _)
\* the words of a text, the runs of characters that are not whitespace, in order,
\* the word being read kept in w
WordsOf(text, w) ==
    IF text = <<>> THEN (IF w = <<>> THEN <<>> ELSE <<w>>)
    ELSE IF Head(text) \in Space
         THEN (IF w = <<>> THEN <<>> ELSE <<w>>) \o WordsOf(Tail(text), <<>>)
         ELSE WordsOf(Tail(text), Append(w, Head(text)))

FileSlug(path) ==
    Bind(MaxOf({0} \cup {j \in 1..Len(path) : path[j] = "/"}),
         LAMBDA slash : SubSeq(path, slash + 1, Len(path) - Len(<<".", "m", "d", "x">>)))

\* C30: every document written bears, as its permalink, the slug its file is
\* named after, whether the record brought the slug or its title gave it
PermalinkIsFileSlug ==
    \A path \in DOMAIN files :
      HasLine(files[path], <<"p", "e", "r", "m", "a", "l", "i", "n", "k", ":", " ", "\"">> \o FileSlug(path) \o <<"\"">>)

\* a post with its slug, and an event whose quoted title gave the slug, are written
QuotedTitleWritten ==
    /\ pc = "done"
    /\ <<"c", "o", "n", "t", "e", "n", "t", "/", "p", "o", "s", "t", "s", "/", "h", "e", "l", "l", "o", ".", "m", "d", "x">> \in DOMAIN files
    /\ <<"c", "o", "n", "t", "e", "n", "t", "/", "e", "v", "e", "n", "t", "/", "f", "a", "i", "r", ".", "m", "d", "x">> \in DOMAIN files
    /\ HasLine(files[<<"c", "o", "n", "t", "e", "n", "t", "/", "e", "v", "e", "n", "t", "/", "f", "a", "i", "r", ".", "m", "d", "x">>], <<"t", "i", "t", "l", "e", ":", " ", "\"", "\\", "\"", "F", "a", "i", "r", "\\", "\"", "\"">>)
    /\ HasLine(files[<<"c", "o", "n", "t", "e", "n", "t", "/", "e", "v", "e", "n", "t", "/", "f", "a", "i", "r", ".", "m", "d", "x">>], <<"p", "e", "r", "m", "a", "l", "i", "n", "k", ":", " ", "\"", "f", "a", "i", "r", "\"">>)
=============================================================================
